---- MODULE Spec2Model ----
(***************************************************************************)
(* The resume interpreter and match scorer of the job portal               *)
(* (services/geminiService.js) and the request handlers that use them.     *)
(*                                                                         *)
(* JavaScript values are tagged records: [t |-> "number", v |-> 3],        *)
(* [t |-> "string", v |-> <<"a","b">>] (a string is its sequence of        *)
(* characters), [t |-> "array", v |-> <<...>>], [t |-> "object", v |-> f]  *)
(* (f maps property names to values), [t |-> "undefined"], [t |-> "null"], *)
(* [t |-> "boolean", v |-> TRUE].  A call ends in a completion:            *)
(* [kind |-> "return", value |-> v] or [kind |-> "throw", value |-> e].    *)
(***************************************************************************)
EXTENDS Integers, Sequences, FiniteSets, TLC

VARIABLES
  genAI,      \* TRUE iff the module created a service client at load
  op,         \* op[i]: "parse" | "score", the operation invocation i runs
  arg,        \* arg[i]: the invocation's arguments
  pc,         \* pc[i]: "idle" | "awaiting" | "done"
  svc,        \* svc[i]: what the generative service answered, once it did
  outcome,    \* outcome[i]: the completion the caller receives
  calls,      \* calls[i]: outbound service calls issued by invocation i
  fallbacks,  \* fallbacks[i]: calls of the fallback made by invocation i
  sJob,       \* the job posting handed to the fallback scorer
  sProfile,   \* the candidate profile handed to the fallback scorer
  sPc,        \* "ready" | "done"
  sResult,    \* the fallback scorer's completion
  rText,      \* the resume text handed to the fallback extractor
  rPc,        \* "ready" | "done"
  rResult,    \* the fallback extractor's completion
  aPc,        \* aPc[q]: where request q of POST /applications stands
  aReq,       \* aReq[q]: the request's user and job id
  aRes,       \* aRes[q]: the status of the response sent, 0 before it
  applications,       \* the Application collection
  applicationsCount,  \* applicationsCount[j] of each job
  jobs,       \* the Job collection: jobs[j] for every stored job j
  profiles,   \* the Profile collection: profiles[u] for every user with one
  files,      \* the requests whose uploaded file is on disk
  hPc,        \* hPc[q]: where request q of the job and profile routes stands
  hReq,       \* hReq[q]: the request's route and inputs
  hRes,       \* hRes[q]: the response sent
  formSkills, \* formData.skills of the Post Job form
  newSkill    \* the form's newSkill state

coreVars == <<genAI, op, arg, pc, svc, outcome, calls, fallbacks>>
scorerVars == <<sJob, sProfile, sPc, sResult>>
parserVars == <<rText, rPc, rResult>>
applyVars == <<aPc, aReq, aRes, applications, applicationsCount>>
siteVars == <<jobs, profiles, files, hPc, hReq, hRes>>
formVars == <<formSkills, newSkill>>
vars == <<genAI, op, arg, pc, svc, outcome, calls, fallbacks,
          sJob, sProfile, sPc, sResult, rText, rPc, rResult,
          aPc, aReq, aRes, applications, applicationsCount,
          jobs, profiles, files, hPc, hReq, hRes, formSkills, newSkill>>

(***************************************************************************)
(* Bounds of the model.                                                    *)
(***************************************************************************)
MaxInv == 2      \* invocations of the core in one behaviour
MaxYears == 5    \* largest job.experience.min and profile.experience length

(***************************************************************************)
(* Characters and strings.                                                 *)
(***************************************************************************)
UpperSeq == <<"A","B","C","D","E","F","G","H","I","J","K","L","M",
              "N","O","P","Q","R","S","T","U","V","W","X","Y","Z">>
LowerSeq == <<"a","b","c","d","e","f","g","h","i","j","k","l","m",
              "n","o","p","q","r","s","t","u","v","w","x","y","z">>
DigitSeq == <<"0","1","2","3","4","5","6","7","8","9">>
Upper == {UpperSeq[i] : i \in DOMAIN UpperSeq}
Lower == {LowerSeq[i] : i \in DOMAIN LowerSeq}
Digit == {DigitSeq[i] : i \in DOMAIN DigitSeq}
\* The backquote character, which a TLA+ string literal cannot hold.
Backtick == "BACKTICK"
\* JavaScript's \s restricted to the characters of the model.
WhiteSpace == {" ", "\n", "\t", "\r"}

LowerChar(c) ==
  IF c \in Upper THEN LowerSeq[CHOOSE i \in DOMAIN UpperSeq : UpperSeq[i] = c]
  ELSE c

\* String.prototype.toLowerCase
toLowerCase(s) == [i \in DOMAIN s |-> LowerChar(s[i])]

\* String.prototype.includes
includes(hay, needle) ==
  \E i \in 0..(Len(hay) - Len(needle)) :
    SubSeq(hay, i + 1, i + Len(needle)) = needle

\* String(n) for an integer n >= 0
RECURSIVE NumToString(_)
NumToString(n) ==
  IF n < 10 THEN <<DigitSeq[n + 1]>>
  ELSE NumToString(n \div 10) \o <<DigitSeq[(n % 10) + 1]>>

(***************************************************************************)
(* JavaScript values.                                                      *)
(***************************************************************************)
Undef == [t |-> "undefined"]
JNull == [t |-> "null"]
JNum(n) == [t |-> "number", v |-> n]
JStr(s) == [t |-> "string", v |-> s]
JBool(b) == [t |-> "boolean", v |-> b]
JArr(a) == [t |-> "array", v |-> a]
JObj(f) == [t |-> "object", v |-> f]
EmptyObj == JObj([k \in {} |-> Undef])

\* An object with the given properties, those whose value is undefined left out.
ObjectOf(f) == JObj([k \in {k \in DOMAIN f : f[k] # Undef} |-> f[k]])

Return(v) == [kind |-> "return", value |-> v]
\* No completion yet.
NoCompletion == [kind |-> "none"]
TypeError == [kind |-> "throw", value |-> JStr(<<"T","y","p","e","E","r","r","o","r">>)]

\* o.k for a value o that is not undefined or null
Get(o, k) == IF o.t = "object" /\ k \in DOMAIN o.v THEN o.v[k] ELSE Undef

\* ToBoolean
Truthy(x) ==
  CASE x.t \in {"undefined", "null"} -> FALSE
    [] x.t = "number" -> x.v # 0
    [] x.t = "string" -> x.v # <<>>
    [] x.t = "boolean" -> x.v
    [] OTHER -> TRUE

\* x.length || 0
LengthOr0(x) == IF x.t \in {"array", "string"} THEN Len(x.v) ELSE 0

(***************************************************************************)
(* Number arithmetic (IEEE-754 binary64, round to nearest, ties to even).  *)
(* A non-negative number is [k |-> limbs, s |-> n]: the integer whose      *)
(* base-2^16 digits are the limbs (least significant first, no leading     *)
(* zero limb), divided by 2^n.                                             *)
(***************************************************************************)
LimbBits == 16
Base == 2 ^ LimbBits
\* The number of significant bits of a binary64 value.
Precision == 53
\* Fraction limbs a division produces before it rounds.
DivLimbCount == 5

Limb(k, i) == IF i \in DOMAIN k THEN k[i] ELSE 0

\* k without its leading zero limbs.
Strip(k) ==
  LET nz == {i \in DOMAIN k : k[i] # 0} IN
  IF nz = {} THEN <<>> ELSE SubSeq(k, 1, CHOOSE i \in nz : \A j \in nz : j <= i)

\* Bit j (from 0) of the integer k.
TestBit(k, j) == (Limb(k, (j \div LimbBits) + 1) \div (2 ^ (j % LimbBits))) % 2

\* The number of bits of the integer k.
BitLen(k) ==
  IF k = <<>> THEN 0
  ELSE LimbBits * (Len(k) - 1)
       + (CHOOSE m \in 1..LimbBits : k[Len(k)] < 2 ^ m /\ k[Len(k)] >= 2 ^ (m - 1))

\* TRUE iff the bits of k below bit j are all zero.
LowZero(k, j) ==
  \A i \in DOMAIN k :
    IF LimbBits * i <= j THEN k[i] = 0
    ELSE IF LimbBits * (i - 1) < j THEN k[i] % (2 ^ (j - LimbBits * (i - 1))) = 0
    ELSE TRUE

\* floor(k / 2^d)
ShiftRight(k, d) ==
  LET q == d \div LimbBits
      r == d % LimbBits
  IN Strip([i \in 1..Len(k) |->
       (Limb(k, i + q) \div (2 ^ r)) + (Limb(k, i + q + 1) % (2 ^ r)) * (2 ^ (LimbBits - r))])

\* k * 2^d
ShiftLeft(k, d) ==
  LET q == d \div LimbBits
      r == d % LimbBits
  IN Strip([i \in 1..(Len(k) + q + 1) |->
       (Limb(k, i - q) % (2 ^ (LimbBits - r))) * (2 ^ r)
       + (Limb(k, i - q - 1) \div (2 ^ (LimbBits - r)))])

\* x + y + c
RECURSIVE AddLimbs(_, _, _)
AddLimbs(x, y, c) ==
  IF x = <<>> /\ y = <<>> THEN (IF c = 0 THEN <<>> ELSE <<c>>)
  ELSE LET t == Limb(x, 1) + Limb(y, 1) + c IN
       <<t % Base>> \o AddLimbs(IF x = <<>> THEN <<>> ELSE Tail(x),
                                IF y = <<>> THEN <<>> ELSE Tail(y), t \div Base)

\* x * n + c for an integer 0 <= n < 2^15
RECURSIVE MulSmall(_, _, _)
MulSmall(x, n, c) ==
  IF x = <<>> THEN (IF c = 0 THEN <<>> ELSE <<c % Base>> \o MulSmall(<<>>, n, c \div Base))
  ELSE LET t == Head(x) * n + c IN <<t % Base>> \o MulSmall(Tail(x), n, t \div Base)

\* The integer k, when it is small.
RECURSIVE IntOf(_)
IntOf(k) == IF k = <<>> THEN 0 ELSE Head(k) + Base * IntOf(Tail(k))

\* The binary64 value nearest to the exact value k / 2^s (plus, when sticky,
\* a non-zero amount below the last bit of k), ties to even.
Round53(k, s, sticky) ==
  IF BitLen(k) <= Precision THEN [k |-> k, s |-> s]
  ELSE LET d == BitLen(k) - Precision
           kept == ShiftRight(k, d)
           below == sticky \/ ~LowZero(k, d - 1)
           up == TestBit(k, d - 1) = 1 /\ (below \/ kept[1] % 2 = 1)
           m == IF up THEN AddLimbs(kept, <<1>>, 0) ELSE kept
       IN IF BitLen(m) > Precision
          THEN [k |-> ShiftRight(m, 1), s |-> s - d - 1]
          ELSE [k |-> m, s |-> s - d]

\* The next n base-2^16 digits of r / b after the point, least significant
\* first, and the remainder left.
RECURSIVE DivLimbs(_, _, _)
DivLimbs(r, b, n) ==
  IF n = 0 THEN [k |-> <<>>, r |-> r]
  ELSE LET rest == DivLimbs((r * Base) % b, b, n - 1) IN
       [k |-> Append(rest.k, (r * Base) \div b), r |-> rest.r]

\* a / b for integers 0 <= a, 0 < b < 2^15, a / b < 2^16
Div(a, b) ==
  LET f == DivLimbs(a % b, b, DivLimbCount) IN
  Round53(Strip(Append(f.k, a \div b)), DivLimbCount * LimbBits, f.r # 0)

\* x * n for a binary64 x and an integer 0 <= n < 2^15
Mul(x, n) == Round53(Strip(MulSmall(x.k, n, 0)), x.s, FALSE)

\* x + y for two binary64 values
Add(x, y) ==
  LET s == IF x.s >= y.s THEN x.s ELSE y.s IN
  Round53(AddLimbs(ShiftLeft(x.k, s - x.s), ShiftLeft(y.k, s - y.s), 0), s, FALSE)

\* Math.round(x) for x >= 0: the nearest integer, a half rounded up.
MathRound(x) ==
  IF x.s <= 0 THEN IntOf(ShiftLeft(x.k, 0 - x.s))
  ELSE IntOf(ShiftRight(x.k, x.s)) + TestBit(x.k, x.s - 1)

\* Math.round((a / b) * 100) for integers a >= 0, b > 0
RoundPercent(a, b) == MathRound(Mul(Div(a, b), 100))

(***************************************************************************)
(* The response clean-up shared by both operations.                        *)
(***************************************************************************)
\* String.prototype.trim
RECURSIVE trimStart(_)
trimStart(s) ==
  IF s # <<>> /\ Head(s) \in WhiteSpace THEN trimStart(Tail(s)) ELSE s
RECURSIVE trimEnd(_)
trimEnd(s) ==
  IF s # <<>> /\ s[Len(s)] \in WhiteSpace THEN trimEnd(SubSeq(s, 1, Len(s) - 1)) ELSE s
trim(s) == trimEnd(trimStart(s))

\* String.prototype.startsWith
startsWith(s, prefix) ==
  Len(s) >= Len(prefix) /\ SubSeq(s, 1, Len(prefix)) = prefix
endsWith(s, suffix) ==
  Len(s) >= Len(suffix) /\ SubSeq(s, Len(s) - Len(suffix) + 1, Len(s)) = suffix

Fence == <<Backtick, Backtick, Backtick>>
JsonFence == Fence \o <<"j","s","o","n">>

\* s.replace(/^<opening>\s*/, '') for an opening the string may start with
stripOpening(s, opening) ==
  IF startsWith(s, opening)
  THEN trimStart(SubSeq(s, Len(opening) + 1, Len(s)))
  ELSE s

\* s.replace(/\s*```$/, '')
stripClosing(s) ==
  IF endsWith(s, Fence) THEN trimEnd(SubSeq(s, 1, Len(s) - Len(Fence))) ELSE s

\* text.trim(), then the markdown code fence removed if present
cleanResponse(text) ==
  LET cleanedText == trim(text) IN
  IF startsWith(cleanedText, JsonFence) THEN stripClosing(stripOpening(cleanedText, JsonFence))
  ELSE IF startsWith(cleanedText, Fence) THEN stripClosing(stripOpening(cleanedText, Fence))
  ELSE cleanedText

Positions(s, c) == {i \in DOMAIN s : s[i] = c}
Min(S) == CHOOSE x \in S : \A y \in S : x <= y
Max(S) == CHOOSE x \in S : \A y \in S : x >= y

\* The same match made lazy: the span ends at the first "}" after the "{".
Mutant_jsonMatch(s) ==
  IF Positions(s, "{") = {} THEN JNull
  ELSE LET first == Min(Positions(s, "{"))
           closing == {i \in Positions(s, "}") : i > first}
       IN IF closing = {} THEN JNull
          ELSE JStr(SubSeq(s, first, Min(closing)))

\* cleanedText.match(/\{[\s\S]*\}/): the span from the first "{" through the
\* last "}", or null
jsonMatch(s) ==
  IF Positions(s, "{") = {} THEN JNull
  ELSE LET first == Min(Positions(s, "{"))
           closing == {i \in Positions(s, "}") : i > first}
       IN IF closing = {} THEN JNull
          ELSE JStr(SubSeq(s, first, Max(closing)))

(***************************************************************************)
(* JSON.parse.  Numbers are integers: the responses of the model hold no   *)
(* fraction and no exponent.                                               *)
(***************************************************************************)
JsonWs == {" ", "\n", "\t", "\r"}
ParseFail == [ok |-> FALSE, v |-> Undef, i |-> 0]
Parsed(v, i) == [ok |-> TRUE, v |-> v, i |-> i]

RECURSIVE SkipWs(_, _)
SkipWs(s, i) == IF i <= Len(s) /\ s[i] \in JsonWs THEN SkipWs(s, i + 1) ELSE i

\* The property name a sequence of characters spells.
RECURSIVE Str(_)
Str(s) == IF s = <<>> THEN "" ELSE Head(s) \o Str(Tail(s))

Unescape(c) ==
  CASE c = "n" -> "\n" [] c = "t" -> "\t" [] c = "r" -> "\r" [] OTHER -> c

\* The characters of a string literal after its opening quote.
RECURSIVE ParseStringBody(_, _, _)
ParseStringBody(s, i, acc) ==
  IF i > Len(s) THEN ParseFail
  ELSE IF s[i] = "\"" THEN Parsed(acc, i + 1)
  ELSE IF s[i] = "\\" THEN
    IF i + 1 <= Len(s) /\ s[i + 1] \in {"\"", "\\", "/", "n", "t", "r"}
    THEN ParseStringBody(s, i + 2, Append(acc, Unescape(s[i + 1])))
    ELSE ParseFail
  ELSE IF s[i] \in {"\n", "\t", "\r"} THEN ParseFail
  ELSE ParseStringBody(s, i + 1, Append(acc, s[i]))

DigitValue(c) == (CHOOSE k \in DOMAIN DigitSeq : DigitSeq[k] = c) - 1

RECURSIVE ParseDigits(_, _, _)
ParseDigits(s, i, acc) ==
  IF i <= Len(s) /\ s[i] \in Digit
  THEN ParseDigits(s, i + 1, 10 * acc + DigitValue(s[i]))
  ELSE Parsed(acc, i)

\* -?(0|[1-9][0-9]*)
ParseNumber(s, i) ==
  LET neg == s[i] = "-"
      j == IF neg THEN i + 1 ELSE i
  IN IF j > Len(s) \/ s[j] \notin Digit THEN ParseFail
     ELSE LET d == IF s[j] = "0" THEN Parsed(0, j + 1) ELSE ParseDigits(s, j, 0)
          IN Parsed(JNum(IF neg THEN 0 - d.v ELSE d.v), d.i)

ParseWord(s, i, word, v) ==
  IF i + Len(word) - 1 <= Len(s) /\ SubSeq(s, i, i + Len(word) - 1) = word
  THEN Parsed(v, i + Len(word))
  ELSE ParseFail

RECURSIVE ParseValue(_, _), ParseMembers(_, _, _), ParseElements(_, _, _)
\* A value starting at i or after white space.
ParseValue(s, i0) ==
  LET i == SkipWs(s, i0) IN
  IF i > Len(s) THEN ParseFail
  ELSE CASE s[i] = "{" ->
              LET j == SkipWs(s, i + 1) IN
              IF j <= Len(s) /\ s[j] = "}" THEN Parsed(EmptyObj, j + 1)
              ELSE ParseMembers(s, j, [k \in {} |-> Undef])
         [] s[i] = "[" ->
              LET j == SkipWs(s, i + 1) IN
              IF j <= Len(s) /\ s[j] = "]" THEN Parsed(JArr(<<>>), j + 1)
              ELSE ParseElements(s, j, <<>>)
         [] s[i] = "\"" ->
              LET r == ParseStringBody(s, i + 1, <<>>) IN
              IF r.ok THEN Parsed(JStr(r.v), r.i) ELSE ParseFail
         [] s[i] \in Digit \cup {"-"} -> ParseNumber(s, i)
         [] s[i] = "t" -> ParseWord(s, i, <<"t","r","u","e">>, JBool(TRUE))
         [] s[i] = "f" -> ParseWord(s, i, <<"f","a","l","s","e">>, JBool(FALSE))
         [] s[i] = "n" -> ParseWord(s, i, <<"n","u","l","l">>, JNull)
         [] OTHER -> ParseFail

\* "key": value pairs up to the closing brace; a repeated key keeps its last value.
ParseMembers(s, i, acc) ==
  IF i > Len(s) \/ s[i] # "\"" THEN ParseFail
  ELSE LET key == ParseStringBody(s, i + 1, <<>>) IN
       IF ~key.ok THEN ParseFail
       ELSE LET c == SkipWs(s, key.i) IN
            IF c > Len(s) \/ s[c] # ":" THEN ParseFail
            ELSE LET val == ParseValue(s, c + 1) IN
                 IF ~val.ok THEN ParseFail
                 ELSE LET e == SkipWs(s, val.i)
                          acc2 == (Str(key.v) :> val.v) @@ acc
                      IN IF e > Len(s) THEN ParseFail
                         ELSE IF s[e] = "}" THEN Parsed(JObj(acc2), e + 1)
                         ELSE IF s[e] = "," THEN ParseMembers(s, SkipWs(s, e + 1), acc2)
                         ELSE ParseFail

\* Values up to the closing bracket.
ParseElements(s, i, acc) ==
  LET val == ParseValue(s, i) IN
  IF ~val.ok THEN ParseFail
  ELSE LET e == SkipWs(s, val.i) IN
       IF e > Len(s) THEN ParseFail
       ELSE IF s[e] = "]" THEN Parsed(JArr(Append(acc, val.v)), e + 1)
       ELSE IF s[e] = "," THEN ParseElements(s, e + 1, Append(acc, val.v))
       ELSE ParseFail

SyntaxError == [kind |-> "throw", value |-> JStr(<<"S","y","n","t","a","x","E","r","r","o","r">>)]

JSONparse(s) ==
  LET r == ParseValue(s, 1) IN
  IF r.ok /\ SkipWs(s, r.i) > Len(s) THEN Return(r.v) ELSE SyntaxError

(***************************************************************************)
(* fallbackResumeParser                                                    *)
(***************************************************************************)
Letter == Upper \cup Lower
\* [a-zA-Z0-9._%+-]
EmailLocalChar == Letter \cup Digit \cup {".", "_", "%", "+", "-"}
\* [a-zA-Z0-9.-]
EmailDomainChar == Letter \cup Digit \cup {".", "-"}
\* [\d\s\-\(\)]
PhoneChar == Digit \cup WhiteSpace \cup {"-", "(", ")"}

\* The index after the longest run of characters of C that starts at i.
RECURSIVE RunEnd(_, _, _)
RunEnd(s, i, C) == IF i <= Len(s) /\ s[i] \in C THEN RunEnd(s, i + 1, C) ELSE i

\* The dots after which the top-level domain of an address may start, for an
\* address whose "@" stands at index at.
EmailDots(s, at) ==
  {k \in (at + 2)..(RunEnd(s, at + 1, EmailDomainChar) - 1) :
     s[k] = "." /\ RunEnd(s, k + 1, Letter) >= k + 3}

\* The indexes at which /[a-zA-Z0-9._%+-]+@[a-zA-Z0-9.-]+\.[a-zA-Z]{2,}/ matches.
EmailStarts(s) ==
  {i \in DOMAIN s :
     LET at == RunEnd(s, i, EmailLocalChar) IN
     at > i /\ at <= Len(s) /\ s[at] = "@" /\ EmailDots(s, at) # {}}

\* resumeText.match(<email>)[0], or null
emailMatch(s) ==
  IF EmailStarts(s) = {} THEN JNull
  ELSE LET i == Min(EmailStarts(s))
           at == RunEnd(s, i, EmailLocalChar)
           dot == Max(EmailDots(s, at))
       IN JStr(SubSeq(s, i, RunEnd(s, dot + 1, Letter) - 1))

\* Where the run of [\d\s\-\(\)] of a match starting at i begins.
PhoneRunStart(s, i) == IF s[i] = "+" THEN i + 1 ELSE i

\* The indexes at which /[\+]?[1-9]?[\d\s\-\(\)]{10,}/ matches.
PhoneStarts(s) ==
  {i \in DOMAIN s :
     RunEnd(s, PhoneRunStart(s, i), PhoneChar) - PhoneRunStart(s, i) >= 10}

\* resumeText.match(<phone>)[0], or null
phoneMatch(s) ==
  IF PhoneStarts(s) = {} THEN JNull
  ELSE LET i == Min(PhoneStarts(s)) IN
       JStr(SubSeq(s, i, RunEnd(s, PhoneRunStart(s, i), PhoneChar) - 1))

\* The index after a capitalized word [A-Z][a-z]+ starting at i, or 0.
WordEnd(s, i) ==
  IF i + 1 <= Len(s) /\ s[i] \in Upper /\ s[i + 1] \in Lower
  THEN RunEnd(s, i + 1, Lower)
  ELSE 0

\* The line starts (multi-line ^) at which /^([A-Z][a-z]+ [A-Z][a-z]+)/m matches.
NameStarts(s) ==
  {i \in DOMAIN s :
     /\ i = 1 \/ s[i - 1] \in {"\n", "\r"}
     /\ LET e == WordEnd(s, i) IN
        e # 0 /\ e <= Len(s) /\ s[e] = " " /\ WordEnd(s, e + 1) # 0}

\* The same match without the multi-line flag: only the start of the text.
Mutant_nameMatch(s) ==
  IF 1 \notin NameStarts(s) THEN JNull
  ELSE JStr(SubSeq(s, 1, WordEnd(s, WordEnd(s, 1) + 1) - 1))

\* resumeText.match(<name>)[1], or null
nameMatch(s) ==
  IF NameStarts(s) = {} THEN JNull
  ELSE LET i == Min(NameStarts(s)) IN
       JStr(SubSeq(s, i, WordEnd(s, WordEnd(s, i) + 1) - 1))

\* resumeText.split('\n')
RECURSIVE splitLines(_)
splitLines(s) ==
  IF Positions(s, "\n") = {} THEN <<s>>
  ELSE LET n == Min(Positions(s, "\n")) IN
       <<SubSeq(s, 1, n - 1)>> \o splitLines(SubSeq(s, n + 1, Len(s)))

\* The lines as split, neither trimmed nor filtered.
Mutant_nonBlankLines(s) == splitLines(s)

\* resumeText.split('\n').map(line => line.trim()).filter(line => line.length > 0)
nonBlankLines(s) ==
  LET lines == splitLines(s) IN
  SelectSeq([i \in DOMAIN lines |-> trim(lines[i])], LAMBDA line : Len(line) > 0)

skillKeywords ==
  <<<<"P","y","t","h","o","n">>,
    <<"J","a","v","a","S","c","r","i","p","t">>,
    <<"J","a","v","a">>,
    <<"C","+","+">>,
    <<"C","#">>,
    <<"H","T","M","L">>,
    <<"C","S","S">>,
    <<"P","H","P">>,
    <<"M","y","S","Q","L">>,
    <<"R","e","a","c","t">>,
    <<"N","o","d","e",".","j","s">>,
    <<"A","n","g","u","l","a","r">>,
    <<"V","u","e",".","j","s">>,
    <<"A","W","S">>,
    <<"D","o","c","k","e","r">>,
    <<"G","i","t">>>>
educationKeywords ==
  <<<<"B","a","c","h","e","l","o","r">>,
    <<"M","a","s","t","e","r">>,
    <<"P","h","D">>,
    <<"D","i","p","l","o","m","a">>,
    <<"C","e","r","t","i","f","i","c","a","t","e">>>>

S_Technical == <<"T","e","c","h","n","i","c","a","l">>
S_Intermediate == <<"I","n","t","e","r","m","e","d","i","a","t","e">>

\* The entry pushed for a keyword found in the text.
foundSkill(skill) ==
  JObj([name |-> JStr(skill), category |-> JStr(S_Technical), level |-> JStr(S_Intermediate)])

\* The same loop comparing without lower-casing.
Mutant_foundSkills(resumeText) ==
  LET hit == SelectSeq(skillKeywords, LAMBDA skill : includes(resumeText, skill))
  IN [i \in DOMAIN hit |-> foundSkill(hit[i])]

\* foundSkills after the forEach over skillKeywords
foundSkills(resumeText) ==
  LET lowered == toLowerCase(resumeText)
      hit == SelectSeq(skillKeywords, LAMBDA skill : includes(lowered, toLowerCase(skill)))
  IN [i \in DOMAIN hit |-> foundSkill(hit[i])]

\* The entry pushed for a line that holds a degree keyword.
educationEntry(line) ==
  JObj([degree |-> JStr(line), school |-> JStr(<<>>), location |-> JStr(<<>>),
        startDate |-> JStr(<<>>), endDate |-> JStr(<<>>), gpa |-> JStr(<<>>),
        description |-> JStr(<<>>)])

\* The entries one line contributes: one per keyword it includes.
RECURSIVE lineEntries(_, _)
lineEntries(line, k) ==
  IF k > Len(educationKeywords) THEN <<>>
  ELSE (IF includes(line, educationKeywords[k]) THEN <<educationEntry(line)>> ELSE <<>>)
       \o lineEntries(line, k + 1)

\* educationEntries after the forEach over lines
RECURSIVE educationEntries(_)
educationEntries(lines) ==
  IF lines = <<>> THEN <<>>
  ELSE lineEntries(Head(lines), 1) \o educationEntries(Tail(lines))

\* extractedData.personalInfo after the three matches
personalInfoOf(resumeText) ==
  LET emailM == emailMatch(resumeText)
      phoneM == phoneMatch(resumeText)
      nameM == nameMatch(resumeText)
  IN ObjectOf([email |-> IF emailM = JNull THEN Undef ELSE emailM,
               phone |-> IF phoneM = JNull THEN Undef ELSE JStr(trim(phoneM.v)),
               name |-> IF nameM = JNull THEN Undef ELSE nameM])

\* The same result without its languages field.
Mutant_fallbackResumeParser(resumeText) ==
  Return(JObj([personalInfo |-> personalInfoOf(resumeText),
               summary |-> JStr(<<>>),
               experience |-> JArr(<<>>),
               education |-> JArr(educationEntries(nonBlankLines(resumeText))),
               skills |-> JArr(foundSkills(resumeText)),
               projects |-> JArr(<<>>),
               certifications |-> JArr(<<>>)]))

fallbackResumeParser(resumeText) ==
  Return(JObj([personalInfo |-> personalInfoOf(resumeText),
               summary |-> JStr(<<>>),
               experience |-> JArr(<<>>),
               education |-> JArr(educationEntries(nonBlankLines(resumeText))),
               skills |-> JArr(foundSkills(resumeText)),
               projects |-> JArr(<<>>),
               certifications |-> JArr(<<>>),
               languages |-> JArr(<<>>)]))

(***************************************************************************)
(* fallbackATSScoring                                                      *)
(***************************************************************************)
\* s => s.name?.toLowerCase() || s.toLowerCase()
skillKey(s) ==
  IF s.t \in {"undefined", "null"} THEN TypeError
  ELSE LET name == Get(s, "name") IN
       IF name.t \notin {"undefined", "null", "string"} THEN TypeError
       ELSE IF name.t = "string" /\ name.v # <<>> THEN Return(toLowerCase(name.v))
       ELSE IF s.t = "string" THEN Return(toLowerCase(s.v))
       ELSE TypeError

\* skills.map(skillKey): throws when the callback throws on an element
mapSkillKeys(skills) ==
  IF skills.t # "array" THEN TypeError
  ELSE IF \E i \in DOMAIN skills.v : skillKey(skills.v[i]).kind = "throw" THEN TypeError
  ELSE Return([i \in DOMAIN skills.v |-> skillKey(skills.v[i]).value])

\* The same count with every() in the place of some().
Mutant_matchedCount(jobSkills, candidateSkills) ==
  Cardinality({i \in DOMAIN jobSkills :
    \A j \in DOMAIN candidateSkills :
      \/ includes(candidateSkills[j], jobSkills[i])
      \/ includes(jobSkills[i], candidateSkills[j])})

\* jobSkills.filter(skill => candidateSkills.some(...)).length
matchedCount(jobSkills, candidateSkills) ==
  Cardinality({i \in DOMAIN jobSkills :
    \E j \in DOMAIN candidateSkills :
      \/ includes(candidateSkills[j], jobSkills[i])
      \/ includes(jobSkills[i], candidateSkills[j])})

\* scores.skills, or the TypeError of a skill without a usable name
skillsScore(job, profile) ==
  IF Truthy(Get(job, "skills")) /\ Truthy(Get(profile, "skills")) THEN
    LET js == mapSkillKeys(Get(job, "skills"))
        cs == mapSkillKeys(Get(profile, "skills"))
    IN IF js.kind = "throw" \/ cs.kind = "throw" THEN TypeError
       ELSE Return(IF Len(js.value) > 0
                   THEN RoundPercent(matchedCount(js.value, cs.value), Len(js.value))
                   ELSE 0)
  ELSE Return(0)

\* jobDescription.experience?.min || 0
requiredYearsOf(job) ==
  LET e == Get(job, "experience") IN
  IF Truthy(e) /\ Truthy(Get(e, "min")) THEN Get(e, "min").v ELSE 0

\* candidateProfile.experience?.length || 0
candidateYearsOf(profile) ==
  LET e == Get(profile, "experience") IN
  IF Truthy(e) THEN LengthOr0(e) ELSE 0

\* scores.experience
experienceScore(job, profile) ==
  IF Truthy(Get(job, "experience")) /\ Truthy(Get(profile, "experience")) THEN
    LET requiredYears == requiredYearsOf(job)
        candidateYears == candidateYearsOf(profile)
    IN IF candidateYears >= requiredYears THEN 100
       ELSE IF candidateYears > 0 THEN RoundPercent(candidateYears, requiredYears)
       ELSE 0
  ELSE 0

\* scores.education
Mutant_educationScore(profile) == IF Truthy(Get(profile, "education")) THEN 80 ELSE 0
educationScore(profile) ==
  LET e == Get(profile, "education") IN
  IF Truthy(e) /\ LengthOr0(e) > 0 THEN 80 ELSE 0

\* The number literals 0.5, 0.3 and 0.2: the binary64 values nearest to them.
SkillsWeight == Div(5, 10)
ExperienceWeight == Div(3, 10)
EducationWeight == Div(2, 10)

\* Math.round((skills * 0.5) + (experience * 0.3) + (education * 0.2))
Mutant_overallOf(s, e, d) == (5 * s + 3 * e + 2 * d) \div 10
overallOf(s, e, d) ==
  MathRound(Add(Add(Mul(SkillsWeight, s), Mul(ExperienceWeight, e)), Mul(EducationWeight, d)))

S_SkillsDetails == <<"B","a","s","i","c"," ","s","k","i","l","l","s"," ","m","a","t","c","h","i","n","g"," ","p","e","r","f","o","r","m","e","d">>
S_ExperienceDetails == <<"B","a","s","i","c"," ","e","x","p","e","r","i","e","n","c","e"," ","m","a","t","c","h","i","n","g"," ","p","e","r","f","o","r","m","e","d">>
S_EducationDetails == <<"B","a","s","i","c"," ","e","d","u","c","a","t","i","o","n"," ","m","a","t","c","h","i","n","g"," ","p","e","r","f","o","r","m","e","d">>
S_CompleteProfile == <<"C","o","m","p","l","e","t","e"," ","y","o","u","r"," ","p","r","o","f","i","l","e">>
S_AddSkills == <<"A","d","d"," ","m","o","r","e"," ","r","e","l","e","v","a","n","t"," ","s","k","i","l","l","s">>
S_SummaryHead == <<"O","v","e","r","a","l","l"," ","m","a","t","c","h"," ","s","c","o","r","e",":"," ">>
S_SummaryTail == <<"%","."," ","T","h","i","s"," ","i","s"," ","a"," ","b","a","s","i","c"," ","c","a","l","c","u","l","a","t","i","o","n",".">>

\* The Match Result built from the three scores
matchResult(job, profile, s, e, d) ==
  LET overallScore == overallOf(s, e, d) IN
  JObj([overallScore |-> JNum(overallScore),
        skillsMatch |-> JObj([score |-> JNum(s),
                              matchedSkills |-> JArr(<<>>),
                              missingSkills |-> JArr(<<>>),
                              details |-> JStr(S_SkillsDetails)]),
        experienceMatch |-> JObj([score |-> JNum(e),
                                  requiredYears |-> JNum(requiredYearsOf(job)),
                                  candidateYears |-> JNum(candidateYearsOf(profile)),
                                  details |-> JStr(S_ExperienceDetails)]),
        educationMatch |-> JObj([score |-> JNum(d),
                                 details |-> JStr(S_EducationDetails)]),
        recommendedActions |-> JArr(<<JStr(S_CompleteProfile), JStr(S_AddSkills)>>),
        matchSummary |-> JStr(S_SummaryHead \o NumToString(overallScore) \o S_SummaryTail)])

fallbackATSScoring(job, profile) ==
  LET s == skillsScore(job, profile) IN
  IF s.kind = "throw" THEN s
  ELSE Return(matchResult(job, profile, s.value,
                          experienceScore(job, profile), educationScore(profile)))

(***************************************************************************)
(* Job postings and candidate profiles handed to the scorer.               *)
(***************************************************************************)
SkillNamed(n) == JObj([name |-> JStr(n)])
\* An array of n entries of an embedded document whose content the scorer
\* never reads.
Entries(n) == JArr([i \in 1..n |-> EmptyObj])

\* Job.skills entries: name is not required by the schema.
JobSkillPool == <<SkillNamed(<<"J","a","v","a">>),
                  SkillNamed(<<"J","a","v","a","S","c","r","i","p","t">>),
                  SkillNamed(<<"S","Q","L">>),
                  JObj([required |-> JBool(FALSE), weight |-> JNum(1)])>>
\* Profile.skills entries: an object with a name, a bare string, no name.
ProfileSkillPool == <<SkillNamed(<<"j","a","v","a">>),
                      SkillNamed(<<"M","y","S","Q","L">>),
                      JStr(<<>>),
                      SkillNamed(<<>>)>>

RECURSIVE PickFrom(_, _, _)
PickFrom(pool, S, i) ==
  IF i > Len(pool) THEN <<>>
  ELSE (IF i \in S THEN <<pool[i]>> ELSE <<>>) \o PickFrom(pool, S, i + 1)

SkillLists(pool) == {JArr(PickFrom(pool, S, 1)) : S \in SUBSET (DOMAIN pool)}

JobExperiences ==
  {Undef, EmptyObj} \cup {JObj([min |-> JNum(n)]) : n \in 0..MaxYears}

Jobs ==
  {ObjectOf([skills |-> sk, experience |-> ex]) :
     sk \in SkillLists(JobSkillPool) \cup {Undef}, ex \in JobExperiences}

Profiles ==
  {ObjectOf([skills |-> sk, experience |-> ex, education |-> ed]) :
     sk \in SkillLists(ProfileSkillPool) \cup {Undef},
     ex \in {Entries(n) : n \in 0..MaxYears} \cup {Undef},
     ed \in {Undef, Entries(0), Entries(1),
             JArr(<<educationEntry(<<"P","h","D">>), EmptyObj>>)}}

(***************************************************************************)
(* parseResumeWithGemini and calculateATSScore.  An invocation runs to its *)
(* await of the service in one step and from the service's answer to its   *)
(* return in another.                                                      *)
(***************************************************************************)
Invocations == 1..MaxInv

\* The fallback of operation o on the invocation's own arguments.
Mutant_fallbackOf(o, a) ==
  IF \E j \in DOMAIN pc : pc[j] = "done"
  THEN Return(EmptyObj)
  ELSE IF o = "parse" THEN fallbackResumeParser(a.v)
  ELSE fallbackATSScoring(a.job, a.profile)
fallbackOf(o, a) ==
  IF o = "parse" THEN fallbackResumeParser(a.v)
  ELSE fallbackATSScoring(a.job, a.profile)

\* `return fallback(...)` inside the try block: what the fallback throws is
\* caught by the function's own catch block, which calls the fallback again.
fallbackInTry(o, a) ==
  LET first == fallbackOf(o, a) IN
  IF first.kind = "throw"
  THEN [outcome |-> fallbackOf(o, a), fallbacks |-> 2]
  ELSE [outcome |-> first, fallbacks |-> 1]

\* The catch block: `return fallback(...)`, whose throw reaches the caller.
Mutant_fallbackInCatch(o, a) ==
  [outcome |-> [kind |-> "throw", value |-> JStr(<<"E","r","r","o","r">>)], fallbacks |-> 0]
fallbackInCatch(o, a) == [outcome |-> fallbackOf(o, a), fallbacks |-> 1]

\* The code after the await, for the text of the service's response.
Mutant_onResponse(o, a, text) ==
  LET match == jsonMatch(cleanResponse(text)) IN
  IF match = JNull THEN fallbackInTry(o, a)
  ELSE LET parsed == JSONparse(match.v) IN
       IF /\ parsed.kind = "return"
          /\ Get(parsed.value, IF o = "parse" THEN "personalInfo" ELSE "overallScore") # Undef
       THEN [outcome |-> parsed, fallbacks |-> 0]
       ELSE fallbackInTry(o, a)
onResponse(o, a, text) ==
  LET match == jsonMatch(cleanResponse(text)) IN
  IF match = JNull THEN fallbackInTry(o, a)
  ELSE LET parsed == JSONparse(match.v) IN
       IF parsed.kind = "return" THEN [outcome |-> parsed, fallbacks |-> 0]
       ELSE fallbackInTry(o, a)

Finish(i, r) ==
  /\ outcome' = [outcome EXCEPT ![i] = r.outcome]
  /\ fallbacks' = [fallbacks EXCEPT ![i] = r.fallbacks]
  /\ pc' = [pc EXCEPT ![i] = "done"]

\* The operation from its call to its first await (or, without a client,
\* to its return).
Mutant_Call(i, o, a) ==
  /\ pc[i] = "idle"
  /\ op' = [op EXCEPT ![i] = o]
  /\ arg' = [arg EXCEPT ![i] = a]
  /\ calls' = [calls EXCEPT ![i] = calls[i] + 1]
  /\ pc' = [pc EXCEPT ![i] = "awaiting"]
  /\ UNCHANGED <<outcome, fallbacks, genAI, svc>>
Call(i, o, a) ==
  /\ pc[i] = "idle"
  /\ op' = [op EXCEPT ![i] = o]
  /\ arg' = [arg EXCEPT ![i] = a]
  /\ IF ~genAI
     THEN /\ Finish(i, fallbackInTry(o, a))
          /\ UNCHANGED calls
     ELSE /\ calls' = [calls EXCEPT ![i] = calls[i] + 1]
          /\ pc' = [pc EXCEPT ![i] = "awaiting"]
          /\ UNCHANGED <<outcome, fallbacks>>
  /\ UNCHANGED <<genAI, svc>>

\* model.generateContent resolves and response.text() returns text.
Mutant_Respond(i, text) ==
  /\ pc[i] = "awaiting"
  /\ svc' = [svc EXCEPT ![i] = Return(JStr(text))]
  /\ Finish(i, IF \E j \in DOMAIN pc : pc[j] = "done" /\ op[j] = op[i]
               THEN [outcome |-> outcome[CHOOSE j \in DOMAIN pc : pc[j] = "done" /\ op[j] = op[i]],
                     fallbacks |-> 0]
               ELSE onResponse(op[i], arg[i], text))
  /\ UNCHANGED <<genAI, op, arg, calls>>
Respond(i, text) ==
  /\ pc[i] = "awaiting"
  /\ svc' = [svc EXCEPT ![i] = Return(JStr(text))]
  /\ Finish(i, onResponse(op[i], arg[i], text))
  /\ UNCHANGED <<genAI, op, arg, calls>>

ServiceError == [kind |-> "throw", value |-> JStr(<<"S","e","r","v","i","c","e","E","r","r","o","r">>)]

\* model.generateContent rejects, or response.text() throws.
Mutant_Fail(i) ==
  /\ pc[i] = "awaiting"
  /\ svc' = [svc EXCEPT ![i] = ServiceError]
  /\ IF calls[i] < 2
     THEN /\ calls' = [calls EXCEPT ![i] = calls[i] + 1]
          /\ UNCHANGED <<pc, outcome, fallbacks>>
     ELSE /\ Finish(i, fallbackInCatch(op[i], arg[i]))
          /\ UNCHANGED calls
  /\ UNCHANGED <<genAI, op, arg>>
Fail(i) ==
  /\ pc[i] = "awaiting"
  /\ svc' = [svc EXCEPT ![i] = ServiceError]
  /\ Finish(i, fallbackInCatch(op[i], arg[i]))
  /\ UNCHANGED <<genAI, op, arg, calls>>

(***************************************************************************)
(* The arguments and the service responses of the model.                   *)
(***************************************************************************)
T_Jane == <<"J","a","n","e"," ","D","o","e","\n","j","a","n","e","@","d","o","e",".","i","o","\n","(","5","5","5",")"," ","1","2","3","-","4","5","6","7","\n","R","e","a","c","t",","," ","G","i","t","\n","P","h","D">>
ResumeTexts == {<<>>, T_Jane}

JobJava ==
  ObjectOf([skills |-> JArr(<<JobSkillPool[1], JobSkillPool[3]>>),
            experience |-> JObj([min |-> JNum(2)])])
JobNameless ==
  ObjectOf([skills |-> JArr(<<JobSkillPool[4]>>), experience |-> EmptyObj])
ProfileJava ==
  ObjectOf([skills |-> JArr(<<ProfileSkillPool[1]>>), experience |-> Entries(1),
            education |-> Entries(1)])
ProfileBare == ObjectOf([skills |-> Undef, experience |-> Undef, education |-> Undef])
ScoreArgs ==
  {[job |-> JobJava, profile |-> ProfileJava],
   [job |-> JobJava, profile |-> ProfileBare],
   [job |-> JobNameless, profile |-> ProfileJava]}

R_Fenced == <<Backtick,Backtick,Backtick,"j","s","o","n","\n","{","\"","o","v","e","r","a","l","l","S","c","o","r","e","\"",":","8","5","}","\n",Backtick,Backtick,Backtick>>
R_OutOfRange == <<"{","\"","o","v","e","r","a","l","l","S","c","o","r","e","\"",":","1","5","0","}">>
R_NoSpan == <<"S","o","r","r","y">>
R_BadJson == <<"{","o","o","p","s","}">>
R_Prose == <<"H","e","r","e"," ","y","o","u"," ","g","o",":"," ","{","\"","s","k","i","l","l","s","\"",":","[","]","}"," ",".">>
Responses == {R_Fenced, R_OutOfRange, R_NoSpan, R_BadJson, R_Prose}

Parse(i) == \E text \in ResumeTexts : Call(i, "parse", JStr(text))
Score(i) == \E a \in ScoreArgs : Call(i, "score", a)
ServiceResponds(i) == \E text \in Responses : Respond(i, text)
ServiceFails(i) == Fail(i)

CoreIdle ==
  /\ op = [i \in Invocations |-> "none"]
  /\ arg = [i \in Invocations |-> Undef]
  /\ pc = [i \in Invocations |-> "idle"]
  /\ svc = [i \in Invocations |-> NoCompletion]
  /\ outcome = [i \in Invocations |-> NoCompletion]
  /\ calls = [i \in Invocations |-> 0]
  /\ fallbacks = [i \in Invocations |-> 0]

ScorerOff ==
  /\ sJob = Undef
  /\ sProfile = Undef
  /\ sPc = "off"
  /\ sResult = NoCompletion

ParserOff ==
  /\ rText = <<>>
  /\ rPc = "off"
  /\ rResult = NoCompletion

\* No request of POST /applications, an empty Application collection.
ApplyOff ==
  /\ aPc = [q \in Invocations |-> "off"]
  /\ aReq = [q \in Invocations |-> Undef]
  /\ aRes = [q \in Invocations |-> 0]
  /\ applications = {}
  /\ applicationsCount = <<>>

\* No job, no profile, no uploaded file, no request of the other routes.
SiteOff ==
  /\ jobs = <<>>
  /\ profiles = <<>>
  /\ files = {}
  /\ hPc = [q \in Invocations |-> "off"]
  /\ hReq = [q \in Invocations |-> Undef]
  /\ hRes = [q \in Invocations |-> Undef]

\* The Post Job form is not mounted.
FormOff ==
  /\ formSkills = <<>>
  /\ newSkill = Undef

\* The module is loaded with or without GEMINI_API_KEY.
Init ==
  /\ genAI \in BOOLEAN
  /\ CoreIdle
  /\ ScorerOff
  /\ ParserOff
  /\ ApplyOff
  /\ SiteOff
  /\ FormOff

Next ==
  \E i \in Invocations :
    \/ Parse(i) /\ UNCHANGED <<scorerVars, parserVars, applyVars, siteVars, formVars>>
    \/ Score(i) /\ UNCHANGED <<scorerVars, parserVars, applyVars, siteVars, formVars>>
    \/ ServiceResponds(i) /\ UNCHANGED <<scorerVars, parserVars, applyVars, siteVars, formVars>>
    \/ ServiceFails(i) /\ UNCHANGED <<scorerVars, parserVars, applyVars, siteVars, formVars>>

Spec == Init /\ [][Next]_vars

(***************************************************************************)
(* Properties of the two operations.                                       *)
(***************************************************************************)
Done(i, o) == pc[i] = "done" /\ op[i] = o

\* The service answered invocation i with a text whose brace-delimited span
\* deserializes.
Usable(i) ==
  /\ svc[i].kind = "return"
  /\ jsonMatch(cleanResponse(svc[i].value.v)) # JNull
  /\ JSONparse(jsonMatch(cleanResponse(svc[i].value.v)).v).kind = "return"

\* The service answered with a text that has no span, or one that does not
\* deserialize.
Unusable(i) == svc[i].kind = "return" /\ ~Usable(i)

\* C1: calculateATSScore never raises to its caller: every finished call of it
\* completed normally, whatever the job, the profile and the service did.
C1_ScoreNeverRaises ==
  \A i \in Invocations : Done(i, "score") => outcome[i].kind = "return"

\* C2: parseResumeWithGemini never raises, and on every failure path (no
\* client, service call throws, no span, span that does not deserialize) it
\* returns exactly fallbackResumeParser(resumeText).
C2_ParseFallsBack ==
  \A i \in Invocations :
    Done(i, "parse") =>
      /\ outcome[i].kind = "return"
      /\ ~Usable(i) => /\ outcome[i] = fallbackResumeParser(arg[i].v)
                       /\ fallbacks[i] = 1

\* A call of parseResumeWithGemini on a resume with a name that the service
\* answered with a span that does not deserialize, and another whose service
\* call threw.
C2_Witness ==
  \E i, j \in Invocations :
    /\ Done(i, "parse") /\ Unusable(i)
    /\ jsonMatch(cleanResponse(svc[i].value.v)) # JNull
    /\ Get(Get(outcome[i].value, "personalInfo"), "name") # Undef
    /\ Done(j, "parse") /\ svc[j].kind = "throw"

\* C3: the overallScore calculateATSScore returns is an integer in 0..100,
\* whichever path produced the result.
C3_OverallScoreInRange ==
  \A i \in Invocations :
    Done(i, "score") /\ outcome[i].kind = "return" =>
      LET score == Get(outcome[i].value, "overallScore") IN
      score.t = "number" /\ score.v \in 0..100

ProfileFields ==
  {"personalInfo", "summary", "experience", "education", "skills", "projects",
   "certifications", "languages"}

\* C4: every profile parseResumeWithGemini returns, from the service or from
\* the fallback, has all eight top-level fields.
C4_ProfileFullyShaped ==
  \A i \in Invocations :
    Done(i, "parse") /\ outcome[i].kind = "return" =>
      \A k \in ProfileFields : Get(outcome[i].value, k) # Undef

\* C5: when the response holds a span that deserializes, both operations
\* return exactly the deserialized object, whatever its shape, and the
\* fallback is not called.
C5_PassThrough ==
  \A i \in Invocations :
    pc[i] = "done" /\ Usable(i) =>
      /\ outcome[i] = JSONparse(jsonMatch(cleanResponse(svc[i].value.v)).v)
      /\ fallbacks[i] = 0

\* Both operations returned a deserialized object that lacks fields of the
\* expected shape.
C5_Witness ==
  \E i, j \in Invocations :
    /\ Done(i, "parse") /\ Usable(i) /\ Get(outcome[i].value, "personalInfo") = Undef
    /\ Done(j, "score") /\ Usable(j) /\ Get(outcome[j].value, "overallScore") = Undef

\* C6: without a service client no call to the service is made: no invocation
\* ever issues one or waits for one, and each finishes through the fallback.
C6_NoClientNoCall ==
  ~genAI =>
    \A i \in Invocations :
      /\ calls[i] = 0
      /\ pc[i] # "awaiting"
      /\ svc[i] = NoCompletion
      /\ pc[i] = "done" => fallbacks[i] >= 1

\* Without a client, both operations have run and returned.
C6_Witness ==
  /\ ~genAI
  /\ \E i, j \in Invocations :
       /\ Done(i, "parse") /\ outcome[i].kind = "return"
       /\ Done(j, "score") /\ outcome[j].kind = "return"

\* C7: an invocation issues at most one call to the service, also after a
\* failed call or an unusable response.
C7_AtMostOneCall ==
  \A i \in Invocations :
    /\ calls[i] <= 1
    /\ calls[i] = 1 <=> (genAI /\ pc[i] # "idle")

\* One invocation finished after its service call threw and one after an
\* unusable response, each having issued one call.
C7_Witness ==
  \E i, j \in Invocations :
    /\ pc[i] = "done" /\ svc[i].kind = "throw" /\ calls[i] = 1
    /\ pc[j] = "done" /\ Unusable(j) /\ calls[j] = 1

\* What an invocation of o on a returns when it runs alone and the service
\* answers it with answer.
RunAlone(o, a, answer) ==
  IF ~genAI THEN fallbackInTry(o, a).outcome
  ELSE IF answer.kind = "throw" THEN fallbackInCatch(o, a).outcome
  ELSE onResponse(o, a, answer.value.v).outcome

SlotUnchanged(j) ==
  /\ op'[j] = op[j] /\ arg'[j] = arg[j] /\ pc'[j] = pc[j] /\ svc'[j] = svc[j]
  /\ outcome'[j] = outcome[j] /\ calls'[j] = calls[j] /\ fallbacks'[j] = fallbacks[j]

\* C8: concurrent invocations of calculateATSScore are independent: a step of
\* one leaves every other invocation's state as it was, and each returns what
\* it returns when run alone with the same arguments and service answer.
C8_Independent ==
  [][\A i \in Invocations :
       /\ ~SlotUnchanged(i) => \A j \in Invocations \ {i} : SlotUnchanged(j)
       /\ pc'[i] = "done" /\ op'[i] = "score" =>
            outcome'[i] = RunAlone(op'[i], arg'[i], svc'[i])]_vars

\* Two invocations of calculateATSScore on different jobs, one returned from
\* its service response while the other still awaits its own.
C8_Witness ==
  \E i, j \in Invocations :
    /\ Done(i, "score") /\ Usable(i)
    /\ op[j] = "score" /\ pc[j] = "awaiting"
    /\ arg[i].job # arg[j].job

InitScorer ==
  /\ genAI = FALSE
  /\ CoreIdle
  /\ sJob \in Jobs
  /\ sProfile \in Profiles
  /\ sPc = "ready"
  /\ sResult = NoCompletion
  /\ ParserOff
  /\ ApplyOff
  /\ SiteOff
  /\ FormOff

ScoreFallback ==
  /\ sPc = "ready"
  /\ sResult' = fallbackATSScoring(sJob, sProfile)
  /\ sPc' = "done"
  /\ UNCHANGED <<sJob, sProfile>>
  /\ UNCHANGED <<coreVars, parserVars, applyVars, siteVars, formVars>>

NextScorer == ScoreFallback

SpecScorer == InitScorer /\ [][NextScorer]_vars

(***************************************************************************)
(* Properties of the fallback scorer.                                      *)
(***************************************************************************)
Scored == sPc = "done" /\ sResult.kind = "return"
ReportedSkills == sResult.value.v.skillsMatch.v.score.v
ReportedExperience == sResult.value.v.experienceMatch.v.score.v
ReportedEducation == sResult.value.v.educationMatch.v.score.v
ReportedOverall == sResult.value.v.overallScore.v
\* Ten times the weighted sum of the reported sub-scores.
Weighted10 == 5 * ReportedSkills + 3 * ReportedExperience + 2 * ReportedEducation

MaxSkills == 40   \* longest job.skills of the model

S_Java == <<"J","a","v","a">>
S_Rust == <<"R","u","s","t">>

\* A job with n skills, the first m of them named "Java", the others "Rust".
JobWithSkills(m, n) ==
  ObjectOf([skills |-> JArr([i \in 1..n |-> SkillNamed(IF i <= m THEN S_Java ELSE S_Rust)]),
            experience |-> EmptyObj])

\* Profiles with the skills "java" and "SQL", with no skill, and without skills.
ProfileJavaSql ==
  ObjectOf([skills |-> JArr(<<SkillNamed(<<"j","a","v","a">>), SkillNamed(<<"S","Q","L">>)>>)])
ProfileNoSkill == ObjectOf([skills |-> JArr(<<>>)])
ProfileNoSkills == EmptyObj

InitSkillLists ==
  /\ genAI = FALSE
  /\ CoreIdle
  /\ sJob \in {JobWithSkills(m, n) : m \in 0..MaxSkills, n \in 0..MaxSkills}
  /\ sProfile \in {ProfileJavaSql, ProfileNoSkill, ProfileNoSkills}
  /\ sPc = "ready"
  /\ sResult = NoCompletion
  /\ ParserOff
  /\ ApplyOff
  /\ SiteOff
  /\ FormOff

NextSkillLists == ScoreFallback

SpecSkillLists == InitSkillLists /\ [][NextSkillLists]_vars

\* The name of a skill entry: the entry itself when it is a bare string.
SkillName(sk) == IF sk.t = "string" THEN sk.v ELSE Get(sk, "name").v

JobSkillNames ==
  IF Truthy(Get(sJob, "skills"))
  THEN [i \in DOMAIN sJob.v.skills.v |-> toLowerCase(SkillName(sJob.v.skills.v[i]))]
  ELSE <<>>
ProfileSkillNames ==
  IF Truthy(Get(sProfile, "skills"))
  THEN [i \in DOMAIN sProfile.v.skills.v |-> toLowerCase(SkillName(sProfile.v.skills.v[i]))]
  ELSE <<>>

\* The job skills whose lower-cased name contains, or is contained in, the
\* lower-cased name of a candidate skill.
MatchedJobSkills ==
  {i \in DOMAIN JobSkillNames :
     \E j \in DOMAIN ProfileSkillNames :
       \/ includes(JobSkillNames[i], ProfileSkillNames[j])
       \/ includes(ProfileSkillNames[j], JobSkillNames[i])}

\* C11: skillsMatch.score is round(100 * m / n), n the number of job skills
\* and m the number of them matched, a half rounded up; it is 0 when the job
\* or the profile has no skills.
C11_SkillsScoreIsRoundedShare ==
  Scored =>
    LET n == Len(JobSkillNames)
        m == Cardinality(MatchedJobSkills)
    IN IF n = 0 \/ Len(ProfileSkillNames) = 0 THEN ReportedSkills = 0
       ELSE /\ 2 * n * ReportedSkills <= 200 * m + n
            /\ 200 * m + n < 2 * n * (ReportedSkills + 1)

(***************************************************************************)
(* The fallback scorer applied to jobs that require many years.            *)
(***************************************************************************)
MaxRequired == 40   \* largest job.experience.min of the model

JobRequiring(r) == ObjectOf([experience |-> JObj([min |-> JNum(r)])])
ProfileWithJobs(c) == ObjectOf([experience |-> Entries(c)])

InitYears ==
  /\ genAI = FALSE
  /\ CoreIdle
  /\ sJob \in {JobRequiring(r) : r \in 0..MaxRequired}
  /\ sProfile \in {ProfileWithJobs(c) : c \in 0..MaxRequired}
  /\ sPc = "ready"
  /\ sResult = NoCompletion
  /\ ParserOff
  /\ ApplyOff
  /\ SiteOff
  /\ FormOff

NextYears == ScoreFallback

SpecYears == InitYears /\ [][NextYears]_vars

ReportedRequiredYears == sResult.value.v.experienceMatch.v.requiredYears.v
ReportedCandidateYears == sResult.value.v.experienceMatch.v.candidateYears.v

\* job.experience.min, 0 when the job states none.
RequiredOfJob ==
  IF Truthy(Get(sJob, "experience")) /\ Truthy(Get(Get(sJob, "experience"), "min"))
  THEN sJob.v.experience.v.min.v
  ELSE 0

\* The number of entries in profile.experience, 0 when the profile has none.
EntriesOfProfile ==
  IF Get(sProfile, "experience").t = "array" THEN Len(sProfile.v.experience.v) ELSE 0

\* C12: with r = job.experience.min and c = the entries of profile.experience,
\* experienceMatch.score is 100 when c >= r, round(100 * c / r) when
\* 0 < c < r and 0 when c = 0 < r, and the result reports r and c.
C12_ExperienceScoreByYears ==
  Scored /\ Get(sJob, "experience") # Undef /\ Get(sProfile, "experience") # Undef =>
    LET r == RequiredOfJob
        c == EntriesOfProfile
    IN /\ ReportedRequiredYears = r
       /\ ReportedCandidateYears = c
       /\ IF c >= r THEN ReportedExperience = 100
          ELSE IF c > 0
          THEN /\ 2 * r * ReportedExperience <= 200 * c + r
               /\ 200 * c + r < 2 * r * (ReportedExperience + 1)
          ELSE ReportedExperience = 0

\* C13: whenever the required years are 0 (job.experience.min absent or 0, or
\* the job has no experience range at all), experienceMatch.score is 100,
\* whatever the profile.
C13_NoRequirementScoresFull ==
  Scored /\ RequiredOfJob = 0 => ReportedExperience = 100

\* C14: educationMatch.score is 80 when profile.education has at least one
\* entry and 0 when it is absent or empty, whatever the job and the entries.
C14_EducationScore ==
  Scored =>
    ReportedEducation =
      (IF Get(sProfile, "education").t = "array" /\ Len(sProfile.v.education.v) >= 1
       THEN 80 ELSE 0)

\* Scored profiles with two education entries, with one, with an empty list
\* and with none.
C14_Witness ==
  /\ Scored
  /\ Get(sJob, "skills") # Undef
  /\ Get(sProfile, "education").t = "array"
  /\ Len(sProfile.v.education.v) = 2
  /\ sProfile.v.education.v[1] # sProfile.v.education.v[2]
  /\ ReportedEducation = 80

(***************************************************************************)
(* The fallback parser applied to resume texts of a few lines.             *)
(***************************************************************************)
MaxLines == 2

L_Name == <<"J","a","n","e"," ","D","o","e">>
L_Email == <<"j","a","n","e",".","d","o","e","@","e","x","a","m","p","l","e",".","c","o","m">>
L_Phone == <<"(","5","5","5",")"," ","1","2","3","-","4","5","6","7">>
L_Skills == <<"P","y","t","h","o","n"," ","a","n","d"," ","R","e","a","c","t">>
L_Bachelor == <<"B","a","c","h","e","l","o","r"," ","o","f"," ","S","c","i","e","n","c","e"," ","i","n"," ","C","o","m","p","u","t","e","r"," ","S","c","i","e","n","c","e">>
L_TwoDegrees == <<" "," ","M","a","s","t","e","r"," ","a","n","d"," ","P","h","D"," ">>
L_Blank == <<>>
L_Indented == <<" "," ","A","d","a"," ","L","o","v","e","l","a","c","e">>
L_Title == <<"S","o","f","t","w","a","r","e"," ","E","n","g","i","n","e","e","r"," ","I","I">>
L_OtherCase == <<"j","a","v","a","s","c","r","i","p","t",","," ","G","I","T">>
ResumeLines ==
  {L_Name, L_Email, L_Phone, L_Skills, L_Bachelor, L_TwoDegrees, L_Blank,
   L_Indented, L_Title, L_OtherCase}

\* The lists of at most MaxLines resume lines.
ResumeLineLists == UNION {[1..n -> ResumeLines] : n \in 0..MaxLines}

\* The text whose lines (resumeText.split('\n')) are ls.
RECURSIVE JoinLines(_)
JoinLines(ls) ==
  IF ls = <<>> THEN <<>>
  ELSE IF Len(ls) = 1 THEN ls[1]
  ELSE ls[1] \o <<"\n">> \o JoinLines(Tail(ls))

InitParser ==
  /\ genAI = FALSE
  /\ CoreIdle
  /\ ScorerOff
  /\ rText \in {JoinLines(ls) : ls \in ResumeLineLists}
  /\ rPc = "ready"
  /\ rResult = NoCompletion
  /\ ApplyOff
  /\ SiteOff
  /\ FormOff

ParseFallback ==
  /\ rPc = "ready"
  /\ rResult' = fallbackResumeParser(rText)
  /\ rPc' = "done"
  /\ UNCHANGED rText
  /\ UNCHANGED <<coreVars, scorerVars, applyVars, siteVars, formVars>>

NextParser == ParseFallback

SpecParser == InitParser /\ [][NextParser]_vars

(***************************************************************************)
(* Properties of the fallback parser.                                      *)
(***************************************************************************)
Extracted == rPc = "done" /\ rResult.kind = "return"
ExtractedData == rResult.value

\* C15: fallbackResumeParser returns for every text, the empty one included,
\* an object with exactly the eight top-level fields: personalInfo an object,
\* summary the empty string, education and skills arrays, and experience,
\* projects, certifications and languages empty arrays.
C15_FallbackProfileShape ==
  rPc = "done" =>
    /\ rResult.kind = "return"
    /\ ExtractedData.t = "object"
    /\ DOMAIN ExtractedData.v =
         {"personalInfo", "summary", "experience", "education", "skills",
          "projects", "certifications", "languages"}
    /\ ExtractedData.v.personalInfo.t = "object"
    /\ ExtractedData.v.summary = JStr(<<>>)
    /\ ExtractedData.v.education.t = "array"
    /\ ExtractedData.v.skills.t = "array"
    /\ \A k \in {"experience", "projects", "certifications", "languages"} :
         ExtractedData.v[k] = JArr(<<>>)

\* The empty text parsed: every list empty and personalInfo without fields.
C15_Witness ==
  /\ Extracted
  /\ rText = <<>>
  /\ ExtractedData.v.personalInfo = EmptyObj
  /\ ExtractedData.v.education = JArr(<<>>)
  /\ ExtractedData.v.skills = JArr(<<>>)

ExtractedSkills == ExtractedData.v.skills.v
\* The listed keywords whose lower-cased form occurs in the lower-cased text.
KeywordsInText ==
  {k \in DOMAIN skillKeywords :
     includes(toLowerCase(rText), toLowerCase(skillKeywords[k]))}
\* The place in skillKeywords of the keyword an entry names.
KeywordOf(entry) == CHOOSE k \in DOMAIN skillKeywords : skillKeywords[k] = entry.v.name.v

\* C16: the skills of the fallback parser are the keywords of the 16-keyword
\* list whose lower-cased form is a substring of the lower-cased text, one
\* entry per keyword, in list order, each with category "Technical" and
\* level "Intermediate".
C16_SkillsAreListedKeywords ==
  Extracted =>
    /\ Len(skillKeywords) = 16
    /\ Len(ExtractedSkills) = Cardinality(KeywordsInText)
    /\ \A i \in DOMAIN ExtractedSkills :
         /\ ExtractedSkills[i].t = "object"
         /\ DOMAIN ExtractedSkills[i].v = {"name", "category", "level"}
         /\ ExtractedSkills[i].v.name.t = "string"
         /\ \E k \in KeywordsInText : skillKeywords[k] = ExtractedSkills[i].v.name.v
         /\ ExtractedSkills[i].v.category = JStr(<<"T","e","c","h","n","i","c","a","l">>)
         /\ ExtractedSkills[i].v.level =
              JStr(<<"I","n","t","e","r","m","e","d","i","a","t","e">>)
    /\ \A i, j \in DOMAIN ExtractedSkills :
         i < j => KeywordOf(ExtractedSkills[i]) < KeywordOf(ExtractedSkills[j])

\* A text with "Python" and "React" and no other keyword: exactly those two
\* entries, Python first.
C16_Witness ==
  /\ Extracted
  /\ rText = L_Name \o <<"\n">> \o L_Skills
  /\ Len(ExtractedSkills) = 2
  /\ ExtractedSkills[1].v.name = JStr(<<"P","y","t","h","o","n">>)
  /\ ExtractedSkills[2].v.name = JStr(<<"R","e","a","c","t">>)
  /\ ExtractedSkills[1].v.level = ExtractedSkills[2].v.level

ExtractedEducation == ExtractedData.v.education.v
\* The lines of the text, trimmed, the blank ones left out.
TrimmedLines ==
  LET raw == splitLines(rText) IN
  SelectSeq([i \in DOMAIN raw |-> trim(raw[i])], LAMBDA l : l # <<>>)
\* The pairs (line, keyword) with the keyword a substring of the line.
DegreePairs ==
  {p \in (DOMAIN TrimmedLines) \X (DOMAIN educationKeywords) :
     includes(TrimmedLines[p[1]], educationKeywords[p[2]])}
\* The pairs before p, line by line and keyword by keyword within a line.
PairsBefore(p) ==
  {q \in DegreePairs : q[1] < p[1] \/ (q[1] = p[1] /\ q[2] < p[2])}

PersonalInfo == ExtractedData.v.personalInfo
\* The ends of the prefixes of a line made of two capitalized words, each an
\* upper-case letter and one or more lower-case ones, with one space between.
NameEnds(l) ==
  {b \in DOMAIN l :
     \E a \in 2..(b - 3) :
       /\ l[1] \in Upper /\ \A i \in 2..a : l[i] \in Lower
       /\ l[a + 1] = " "
       /\ l[a + 2] \in Upper /\ \A i \in (a + 3)..b : l[i] \in Lower}
\* The lines of the text that start with two capitalized words.
NamedLines == {i \in DOMAIN splitLines(rText) : NameEnds(splitLines(rText)[i]) # {}}

Member(k, d) == [key |-> k, value |-> d]
JDoc(ms) == [t |-> "members", v |-> ms]

\* The JavaScript value a document denotes.
RECURSIVE ValueOf(_), MembersOf(_)
ValueOf(d) ==
  CASE d.t = "members" -> JObj(MembersOf(d.v))
    [] d.t = "array" -> JArr([i \in DOMAIN d.v |-> ValueOf(d.v[i])])
    [] OTHER -> d
MembersOf(ms) ==
  IF ms = <<>> THEN [k \in {} |-> Undef]
  ELSE LET last == ms[Len(ms)] IN
       (Str(last.key) :> ValueOf(last.value)) @@ MembersOf(SubSeq(ms, 1, Len(ms) - 1))

\* A character inside a JSON string literal.
EscapeChar(c) ==
  CASE c = "\"" -> <<"\\", "\"">>
    [] c = "\\" -> <<"\\", "\\">>
    [] c = "\n" -> <<"\\", "n">>
    [] c = "\t" -> <<"\\", "t">>
    [] c = "\r" -> <<"\\", "r">>
    [] OTHER -> <<c>>

RECURSIVE EscapeAll(_)
EscapeAll(s) == IF s = <<>> THEN <<>> ELSE EscapeChar(Head(s)) \o EscapeAll(Tail(s))

Quoted(s) == <<"\"">> \o EscapeAll(s) \o <<"\"">>

\* The JSON text of a document, gap being the white space written after
\* every ":" and ",".
RECURSIVE Serialize(_, _), SerializeMembers(_, _), SerializeElements(_, _)
Serialize(d, gap) ==
  CASE d.t = "members" -> <<"{">> \o SerializeMembers(d.v, gap) \o <<"}">>
    [] d.t = "array" -> <<"[">> \o SerializeElements(d.v, gap) \o <<"]">>
    [] d.t = "string" -> Quoted(d.v)
    [] d.t = "number" ->
         IF d.v < 0 THEN <<"-">> \o NumToString(0 - d.v) ELSE NumToString(d.v)
    [] d.t = "boolean" ->
         IF d.v THEN <<"t","r","u","e">> ELSE <<"f","a","l","s","e">>
    [] OTHER -> <<"n","u","l","l">>
SerializeMembers(ms, gap) ==
  IF ms = <<>> THEN <<>>
  ELSE Quoted(ms[1].key) \o <<":">> \o gap \o Serialize(ms[1].value, gap)
       \o (IF Len(ms) = 1 THEN <<>> ELSE <<",">> \o gap \o SerializeMembers(Tail(ms), gap))
SerializeElements(es, gap) ==
  IF es = <<>> THEN <<>>
  ELSE Serialize(es[1], gap)
       \o (IF Len(es) = 1 THEN <<>> ELSE <<",">> \o gap \o SerializeElements(Tail(es), gap))

K_overallScore == <<"o","v","e","r","a","l","l","S","c","o","r","e">>
K_matchSummary == <<"m","a","t","c","h","S","u","m","m","a","r","y">>
K_personalInfo == <<"p","e","r","s","o","n","a","l","I","n","f","o">>
K_name == <<"n","a","m","e">>
K_skills == <<"s","k","i","l","l","s">>
K_summary == <<"s","u","m","m","a","r","y">>

D_Empty == JDoc(<<>>)
D_Score == JDoc(<<Member(K_overallScore, JNum(85))>>)
D_Profile ==
  JDoc(<<Member(K_personalInfo, JDoc(<<Member(K_name, JStr(L_Name))>>)),
         Member(K_skills, JArr(<<>>))>>)
\* A summary that holds braces, a fence, a quote, a backslash and a newline.
D_Braces ==
  JDoc(<<Member(K_summary,
                JStr(<<"}", Backtick, Backtick, Backtick, "{", "\"", "\\", "\n">>))>>)
D_Nested ==
  JDoc(<<Member(K_skills,
                JArr(<<JNum(1), JNum(0 - 20), JDoc(<<Member(K_name, JNull)>>),
                       JBool(TRUE), JBool(FALSE)>>)),
         Member(K_overallScore, JNum(150)),
         Member(K_matchSummary, JStr(<<"o", "k">>))>>)
Documents == {D_Empty, D_Score, D_Profile, D_Braces, D_Nested}

Gaps == {<<>>, <<" ">>}
Openings == {JsonFence, Fence}
Blanks == {<<>>, <<"\n">>}
Margins == {<<>>, <<" ", "\n">>}

\* The responses: a document's text inside a fence, with optional white
\* space around the fence and between the fence and the text.
FencedResponses ==
  {[doc |-> d, json |-> Serialize(d, gap), opening |-> o,
    text |-> m[1] \o o \o b[1] \o Serialize(d, gap) \o b[2] \o Fence \o m[2]] :
     d \in Documents, gap \in Gaps, o \in Openings,
     b \in Blanks \X Blanks, m \in Margins \X Margins}

ServiceRespondsFenced(i) == \E r \in FencedResponses : Respond(i, r.text)

InitRoundTrip ==
  /\ genAI = TRUE
  /\ CoreIdle
  /\ ScorerOff
  /\ ParserOff
  /\ ApplyOff
  /\ SiteOff
  /\ FormOff

\* One call in a behaviour: every other invocation stays idle.
NextRoundTrip ==
  \E i \in Invocations :
    /\ \A j \in Invocations \ {i} : pc[j] = "idle"
    /\ \/ Parse(i) /\ UNCHANGED <<scorerVars, parserVars, applyVars, siteVars, formVars>>
       \/ Score(i) /\ UNCHANGED <<scorerVars, parserVars, applyVars, siteVars, formVars>>
       \/ ServiceRespondsFenced(i) /\ UNCHANGED <<scorerVars, parserVars, applyVars, siteVars, formVars>>

SpecRoundTrip == InitRoundTrip /\ [][NextRoundTrip]_vars

\* The span from the first "{" through the last "}" of a text.
BraceSpan(s) ==
  SubSeq(s, CHOOSE i \in DOMAIN s : s[i] = "{" /\ \A j \in 1..(i - 1) : s[j] # "{",
            CHOOSE i \in DOMAIN s : s[i] = "}" /\ \A j \in (i + 1)..Len(s) : s[j] # "}")

\* C19: when the service answers with the serialization of a JSON object J
\* inside a ```json fence or a bare ``` fence, with optional white space
\* around, parseResumeWithGemini and calculateATSScore return an object equal
\* to J without calling a fallback, and the text handed to JSON.parse is the
\* span from the first "{" through the last "}" of the cleaned text.
C19_FencedJsonRoundTrips ==
  \A i \in Invocations :
    pc[i] = "done" /\ svc[i].kind = "return" =>
      \A r \in FencedResponses :
        svc[i].value.v = r.text =>
          /\ outcome[i] = Return(ValueOf(r.doc))
          /\ fallbacks[i] = 0
          /\ jsonMatch(cleanResponse(r.text)) = JStr(BraceSpan(cleanResponse(r.text)))
          /\ jsonMatch(cleanResponse(r.text)) = JStr(r.json)

\* A scoring call answered, inside a bare fence, with an object that nests
\* an object in a list, returned as that object.
C19_Witness ==
  \E i \in Invocations :
    /\ Done(i, "score")
    /\ svc[i].kind = "return"
    /\ \E r \in FencedResponses :
         /\ r.doc = D_Nested /\ r.opening = Fence
         /\ svc[i].value.v = r.text
         /\ outcome[i] = Return(ValueOf(D_Nested))
    /\ outcome[i].value.v.skills.v[3] = JObj([name |-> JNull])
    /\ outcome[i].value.v.overallScore = JNum(150)

(***************************************************************************)
(* POST /applications.  Request q runs calculateATSScore as invocation q.  *)
(***************************************************************************)
\* The Job collection: two active postings, one of them with a skill entry
\* that has no name, and a closed one.
JobDocs ==
  [j1 |-> [status |-> "active", doc |-> JobJava, employer |-> "e1"],
   j2 |-> [status |-> "active", doc |-> JobNameless, employer |-> "e1"],
   j3 |-> [status |-> "closed", doc |-> JobJava, employer |-> "e2"]]
\* The job ids a request may carry: those of the collection and an unknown one.
JobIds == DOMAIN JobDocs \cup {"j0"}
\* The Profile collection: u1 has a profile, u2 has none.
ProfileDocs == [u1 |-> [id |-> "p1", doc |-> ProfileJava]]
Users == {"u1", "u2"}
CoverLetters == {JStr(<<"H","i">>)}

\* The two object literals passed to calculateATSScore.
jobArgument(job) ==
  ObjectOf([title |-> Get(job, "title"), description |-> Get(job, "description"),
            requirements |-> Get(job, "requirements"), skills |-> Get(job, "skills"),
            experience |-> Get(job, "experience")])
profileArgument(profile) ==
  ObjectOf([experience |-> Get(profile, "experience"), skills |-> Get(profile, "skills"),
            education |-> Get(profile, "education"), summary |-> Get(profile, "summary")])

\* x || fallback
OrElse(x, fallback) == IF Truthy(x) THEN x ELSE fallback

\* atsScore and matchDetails after the try/catch around calculateATSScore.
scoreFields(r) ==
  IF r.kind = "return"
  THEN [atsScore |-> Get(r.value, "overallScore"),
        matchDetails |->
          JObj([skillsMatch |-> OrElse(Get(r.value, "skillsMatch"), JArr(<<>>)),
                experienceMatch |-> OrElse(Get(r.value, "experienceMatch"), EmptyObj),
                educationMatch |-> OrElse(Get(r.value, "educationMatch"), EmptyObj),
                overallMatch |-> OrElse(Get(r.value, "matchSummary"), JStr(<<>>))])]
  ELSE [atsScore |-> JNum(0), matchDetails |-> JNull]

\* atsScore: { type: Number, min: 0, max: 100 }, not required
validAtsScore(x) ==
  \/ x \in {Undef, JNull}
  \/ x.t = "number" /\ x.v >= 0 /\ x.v <= 100

\* The response is sent and the handler ends.
Answer(q, status) ==
  /\ aRes' = [aRes EXCEPT ![q] = status]
  /\ aPc' = [aPc EXCEPT ![q] = "done"]

\* The handler from the request to the await of calculateATSScore, or to an
\* early answer.
ApplyStart(q) ==
  /\ aPc[q] = "off"
  /\ \E u \in Users, j \in JobIds, c \in CoverLetters :
       /\ aReq' = [aReq EXCEPT ![q] = [user |-> u, jobId |-> j, coverLetter |-> c]]
       /\ IF j \notin DOMAIN jobs \/ jobs[j].status # "active"
          THEN Answer(q, 404) /\ UNCHANGED coreVars
          ELSE IF u \notin DOMAIN ProfileDocs
          THEN Answer(q, 400) /\ UNCHANGED coreVars
          ELSE IF \E a \in applications : a.job = j /\ a.jobseeker = u
          THEN Answer(q, 400) /\ UNCHANGED coreVars
          ELSE /\ Call(q, "score", [job |-> jobArgument(jobs[j].doc),
                                    profile |-> profileArgument(ProfileDocs[u].doc)])
               /\ aPc' = [aPc EXCEPT ![q] = "scoring"]
               /\ UNCHANGED aRes
  /\ UNCHANGED <<applications, applicationsCount>>

\* application.save() without the unique index on (job, jobseeker).
Mutant_ApplySave(q) ==
  /\ aPc[q] = "scoring"
  /\ pc[q] = "done"
  /\ LET fields == scoreFields(outcome[q])
         application ==
           [id |-> q, job |-> aReq[q].jobId, jobseeker |-> aReq[q].user,
            profile |-> ProfileDocs[aReq[q].user].id,
            atsScore |-> fields.atsScore, matchDetails |-> fields.matchDetails,
            coverLetter |-> aReq[q].coverLetter]
     IN IF validAtsScore(fields.atsScore)
        THEN /\ applications' = applications \cup {application}
             /\ aPc' = [aPc EXCEPT ![q] = "saved"]
             /\ UNCHANGED aRes
        ELSE /\ Answer(q, 500)
             /\ UNCHANGED applications
  /\ UNCHANGED <<aReq, applicationsCount>>
  /\ UNCHANGED coreVars

\* From the completion of calculateATSScore through application.save().
ApplySave(q) ==
  /\ aPc[q] = "scoring"
  /\ pc[q] = "done"
  /\ LET fields == scoreFields(outcome[q])
         application ==
           [id |-> q, job |-> aReq[q].jobId, jobseeker |-> aReq[q].user,
            profile |-> ProfileDocs[aReq[q].user].id,
            atsScore |-> fields.atsScore, matchDetails |-> fields.matchDetails,
            coverLetter |-> aReq[q].coverLetter]
     IN IF /\ validAtsScore(fields.atsScore)
           /\ ~\E a \in applications :
                 a.job = application.job /\ a.jobseeker = application.jobseeker
        THEN /\ applications' = applications \cup {application}
             /\ aPc' = [aPc EXCEPT ![q] = "saved"]
             /\ UNCHANGED aRes
        ELSE /\ Answer(q, 500)
             /\ UNCHANGED applications
  /\ UNCHANGED <<aReq, applicationsCount>>
  /\ UNCHANGED coreVars

\* Job.findByIdAndUpdate with $inc, the populated read and the 201 answer.
ApplyCount(q) ==
  /\ aPc[q] = "saved"
  /\ applicationsCount' =
       [j \in DOMAIN applicationsCount |->
          applicationsCount[j] + (IF j = aReq[q].jobId THEN 1 ELSE 0)]
  /\ Answer(q, 201)
  /\ UNCHANGED <<aReq, applications>>
  /\ UNCHANGED coreVars

InitApply ==
  /\ genAI \in BOOLEAN
  /\ CoreIdle
  /\ ScorerOff
  /\ ParserOff
  /\ aPc = [q \in Invocations |-> "off"]
  /\ aReq = [q \in Invocations |-> Undef]
  /\ aRes = [q \in Invocations |-> 0]
  /\ applications = {}
  /\ applicationsCount = [j \in DOMAIN JobDocs |-> 0]
  /\ jobs = JobDocs
  /\ profiles = <<>>
  /\ files = {}
  /\ hPc = [q \in Invocations |-> "off"]
  /\ hReq = [q \in Invocations |-> Undef]
  /\ hRes = [q \in Invocations |-> Undef]
  /\ FormOff

NextApply ==
  \E q \in Invocations :
    \/ ApplyStart(q) /\ UNCHANGED <<scorerVars, parserVars, siteVars, formVars>>
    \/ ServiceResponds(q) /\ UNCHANGED <<scorerVars, parserVars, applyVars, siteVars, formVars>>
    \/ ServiceFails(q) /\ UNCHANGED <<scorerVars, parserVars, applyVars, siteVars, formVars>>
    \/ ApplySave(q) /\ UNCHANGED <<scorerVars, parserVars, siteVars, formVars>>
    \/ ApplyCount(q) /\ UNCHANGED <<scorerVars, parserVars, siteVars, formVars>>

SpecApply == InitApply /\ [][NextApply]_vars

\* The Application stored for request q.
StoredFor(q) ==
  CHOOSE a \in applications : a.job = aReq[q].jobId /\ a.jobseeker = aReq[q].user

\* C20: when POST /applications answers 201, calculateATSScore has returned
\* a result for the job and the applicant's profile, the stored
\* Application's atsScore is that result's overallScore, and its
\* matchDetails hold the result's skillsMatch, experienceMatch,
\* educationMatch and matchSummary (where the result has them).
C20_StoredScoreIsReturnedScore ==
  \A q \in Invocations :
    aRes[q] = 201 =>
      /\ arg[q] = [job |-> jobArgument(JobDocs[aReq[q].jobId].doc),
                   profile |-> profileArgument(ProfileDocs[aReq[q].user].doc)]
      /\ outcome[q].kind = "return"
      /\ StoredFor(q).atsScore = Get(outcome[q].value, "overallScore")
      /\ StoredFor(q).matchDetails.t = "object"
      /\ \A k \in {"skillsMatch", "experienceMatch", "educationMatch"} :
           Get(outcome[q].value, k) # Undef =>
             StoredFor(q).matchDetails.v[k] = Get(outcome[q].value, k)
      /\ Get(outcome[q].value, "matchSummary") # Undef =>
           StoredFor(q).matchDetails.v.overallMatch = Get(outcome[q].value, "matchSummary")

\* The stored Applications of jobseeker u for job j.
ApplicationsOf(j, u) == {a \in applications : a.job = j /\ a.jobseeker = u}

\* C23: at most one Application exists for any (job, jobseeker) pair in
\* every reachable state, whatever the interleaving of the requests; a
\* request stores an Application exactly when it goes on to answer 201, and
\* an apply answered 400 by a jobseeker who has a profile found the pair's
\* Application stored by another request and stored none itself.
C23_OneApplicationPerPair ==
  /\ \A a, b \in applications : a.job = b.job /\ a.jobseeker = b.jobseeker => a = b
  /\ \A q \in Invocations :
       /\ (\E a \in applications : a.id = q) <=> (aPc[q] = "saved" \/ aRes[q] = 201)
       /\ aRes[q] = 400 /\ aReq[q].user \in DOMAIN ProfileDocs =>
            \E a \in ApplicationsOf(aReq[q].jobId, aReq[q].user) : a.id # q

\* Two requests of one jobseeker for one job both passed the check for an
\* existing application; one stored the Application, the other was refused
\* by the unique index.
C23_Witness ==
  \E q, r \in Invocations :
    /\ q # r
    /\ aReq[q] = aReq[r]
    /\ aRes[q] = 201
    /\ aRes[r] = 500
    /\ validAtsScore(scoreFields(outcome[r]).atsScore)
    /\ Cardinality(ApplicationsOf(aReq[q].jobId, aReq[q].user)) = 1

\* C26: scoring never blocks an application: a request that reached the
\* scoring step ends with 201, its Application stored and counted, whatever
\* calculateATSScore returned or threw (after a throw the stored atsScore is
\* 0 and matchDetails is null); the only other ending is 500 when a
\* concurrent request of the same jobseeker stored the pair's Application
\* first.
C26_ScoringNeverBlocks ==
  \A q \in Invocations :
    aPc[q] = "done" /\ pc[q] = "done" =>
      \/ /\ aRes[q] = 201
         /\ \E a \in ApplicationsOf(aReq[q].jobId, aReq[q].user) :
              /\ a.id = q
              /\ outcome[q].kind = "throw" => a.atsScore = JNum(0) /\ a.matchDetails = JNull
         /\ applicationsCount[aReq[q].jobId] >= 1
      \/ /\ aRes[q] = 500
         /\ \E a \in ApplicationsOf(aReq[q].jobId, aReq[q].user) : a.id # q

(***************************************************************************)
(* POST, PUT and DELETE /jobs beside POST /applications.  A request slot   *)
(* q carries either an application or a job request.                       *)
(***************************************************************************)
Employers == {"e1", "e2"}
\* The _id given to the job created by request q.
NewJobIds == <<"n1", "n2", "n3", "n4">>

\* Request bodies of POST /jobs and PUT /jobs/:id: the fields of the Job
\* schema they carry.
JobBodies ==
  {[doc |-> JobJava], [status |-> "closed"], [employer |-> "e2"],
   [doc |-> JobJava, applicationsCount |-> 3]}

\* A Job document with the fields of an update applied.
Updated(job, body) ==
  [k \in DOMAIN job |-> IF k \in DOMAIN body THEN body[k] ELSE job[k]]

\* The response of a job request is sent and the handler ends.
Reply(q, status) ==
  /\ hRes' = [hRes EXCEPT ![q] = status]
  /\ hPc' = [hPc EXCEPT ![q] = "done"]

\* router.post('/'): new Job({...req.body, employer: req.user._id}).save()
PostJob(q) ==
  /\ hPc[q] = "off"
  /\ \E e \in Employers, body \in {b \in JobBodies : "doc" \in DOMAIN b} :
       LET id == NewJobIds[q]
           job == Updated([status |-> "active", doc |-> body.doc, employer |-> e],
                          [k \in DOMAIN body \ {"employer"} |-> body[k]])
       IN /\ hReq' = [hReq EXCEPT ![q] = [kind |-> "post", user |-> e, jobId |-> id,
                                          body |-> body]]
          /\ jobs' = [j \in DOMAIN jobs \cup {id} |-> IF j = id THEN job ELSE jobs[j]]
          /\ applicationsCount' =
               [j \in DOMAIN jobs \cup {id} |->
                  IF j # id THEN applicationsCount[j]
                  ELSE IF "applicationsCount" \in DOMAIN body THEN body.applicationsCount
                  ELSE 0]
  /\ Reply(q, 201)

\* router.put('/:id') and router.delete('/:id') up to the second await:
\* Job.findById and the ownership check.
FindOwnJob(q, kind) ==
  /\ hPc[q] = "off"
  /\ \E e \in Employers, j \in JobIds, body \in JobBodies :
       /\ hReq' = [hReq EXCEPT ![q] = [kind |-> kind, user |-> e, jobId |-> j,
                                       body |-> body]]
       /\ IF j \notin DOMAIN jobs THEN Reply(q, 404)
          ELSE IF jobs[j].employer # e THEN Reply(q, 403)
          ELSE /\ hPc' = [hPc EXCEPT ![q] = "found"]
               /\ UNCHANGED hRes
  /\ UNCHANGED <<jobs, applicationsCount>>

\* Job.findByIdAndUpdate(req.params.id, req.body, ...) and the answer.
PutJob(q) ==
  /\ hPc[q] = "found"
  /\ hReq[q].kind = "put"
  /\ LET j == hReq[q].jobId
         body == hReq[q].body
     IN /\ jobs' = [k \in DOMAIN jobs |-> IF k = j THEN Updated(jobs[k], body) ELSE jobs[k]]
        /\ applicationsCount' =
             [k \in DOMAIN applicationsCount |->
                IF k = j /\ "applicationsCount" \in DOMAIN body
                THEN body.applicationsCount ELSE applicationsCount[k]]
  /\ Reply(q, 200)
  /\ UNCHANGED hReq

\* Job.findByIdAndDelete(req.params.id) and the answer.
DeleteJob(q) ==
  /\ hPc[q] = "found"
  /\ hReq[q].kind = "delete"
  /\ LET j == hReq[q].jobId
     IN /\ jobs' = [k \in DOMAIN jobs \ {j} |-> jobs[k]]
        /\ applicationsCount' = [k \in DOMAIN applicationsCount \ {j} |-> applicationsCount[k]]
  /\ Reply(q, 200)
  /\ UNCHANGED hReq

InitJobs ==
  /\ genAI = FALSE
  /\ CoreIdle
  /\ ScorerOff
  /\ ParserOff
  /\ aPc = [q \in Invocations |-> "off"]
  /\ aReq = [q \in Invocations |-> Undef]
  /\ aRes = [q \in Invocations |-> 0]
  /\ applications = {}
  /\ applicationsCount = [j \in DOMAIN JobDocs |-> 0]
  /\ jobs = JobDocs
  /\ profiles = <<>>
  /\ files = {}
  /\ hPc = [q \in Invocations |-> "off"]
  /\ hReq = [q \in Invocations |-> Undef]
  /\ hRes = [q \in Invocations |-> Undef]
  /\ FormOff

NextJobs ==
  \E q \in Invocations :
    \/ /\ hPc[q] = "off"
       /\ ApplyStart(q)
       /\ UNCHANGED <<scorerVars, parserVars, siteVars, formVars>>
    \/ ApplySave(q) /\ UNCHANGED <<scorerVars, parserVars, siteVars, formVars>>
    \/ ApplyCount(q) /\ UNCHANGED <<scorerVars, parserVars, siteVars, formVars>>
    \/ /\ aPc[q] = "off"
       /\ PostJob(q)
       /\ UNCHANGED <<coreVars, scorerVars, parserVars, formVars, aPc, aReq, aRes, applications, profiles, files>>
    \/ /\ aPc[q] = "off"
       /\ \E kind \in {"put", "delete"} : FindOwnJob(q, kind)
       /\ UNCHANGED <<coreVars, scorerVars, parserVars, formVars, aPc, aReq, aRes, applications, profiles, files>>
    \/ PutJob(q)
       /\ UNCHANGED <<coreVars, scorerVars, parserVars, formVars, aPc, aReq, aRes, applications, profiles, files>>
    \/ DeleteJob(q)
       /\ UNCHANGED <<coreVars, scorerVars, parserVars, formVars, aPc, aReq, aRes, applications, profiles, files>>

SpecJobs == InitJobs /\ [][NextJobs]_vars

\* No request is between its first step and its answer.
Quiescent ==
  \A q \in Invocations : aPc[q] \in {"off", "done"} /\ hPc[q] \in {"off", "done"}

\* C24: whenever no request is in progress, the applicationsCount of every
\* existing job equals the number of stored Applications for that job.
C24_CountIsNumberOfApplications ==
  Quiescent =>
    \A j \in DOMAIN jobs :
      applicationsCount[j] = Cardinality({a \in applications : a.job = j})

\* C27: a job is modified or deleted only by a request of the employer who
\* created it, PUT or DELETE /jobs/:id by any other employer is answered 403,
\* and no step changes the employer field of an existing job.
C27_OnlyOwnerChangesJob ==
  [][\A j \in DOMAIN jobs :
       /\ (j \notin DOMAIN jobs' \/ jobs'[j] # jobs[j]) =>
            \E q \in Invocations :
              hPc'[q] # hPc[q] /\ hReq'[q].user = jobs[j].employer
       /\ j \in DOMAIN jobs' => jobs'[j].employer = jobs[j].employer
       /\ \A q \in Invocations :
            /\ hPc[q] = "off" /\ hPc'[q] # "off"
            /\ hReq'[q].kind \in {"put", "delete"}
            /\ hReq'[q].jobId = j
            /\ hReq'[q].user # jobs[j].employer
            => hRes'[q] = 403 /\ hPc'[q] = "done"]_vars

(***************************************************************************)
(* POST /upload: the resume upload request.  Request q runs                *)
(* parseResumeWithGemini as invocation q.                                  *)
(***************************************************************************)
\* What arrives with the request: no file, a file whose text extraction
\* fails, or a file with extractable text.
Uploads ==
  {[present |-> FALSE], [present |-> TRUE, readable |-> FALSE]}
    \cup {[present |-> TRUE, readable |-> TRUE, text |-> T_Jane]}

\* What the service answers to the parse prompt: a profile in JSON with a
\* name and an empty skills list, or a text without JSON.
UploadResponses == {Serialize(D_Profile, <<>>), R_NoSpan}
UploadResponds(q) == \E text \in UploadResponses : Respond(q, text)

\* The profile u1 has stored before the uploads; u2 has none.
StoredProfile ==
  JObj([personalInfo |-> JObj([name |-> JStr(<<"A","n","n">>),
                               location |-> JStr(<<"O","s","l","o">>)]),
        summary |-> JStr(<<"D","e","v">>),
        experience |-> Entries(1),
        education |-> Entries(1),
        skills |-> JArr(<<ProfileSkillPool[1]>>),
        projects |-> Entries(1),
        certifications |-> Entries(1),
        languages |-> Entries(1)])

\* new Profile({ user: req.user._id })
NewProfile ==
  JObj([personalInfo |-> EmptyObj, experience |-> JArr(<<>>), education |-> JArr(<<>>),
        skills |-> JArr(<<>>), projects |-> JArr(<<>>), certifications |-> JArr(<<>>),
        languages |-> JArr(<<>>)])

\* The fields assigned with parsedData.x || profile.x
OrFields ==
  {"summary", "experience", "education", "skills", "projects", "certifications",
   "languages"}

\* { ...a, ...b }
Spread(a, b) ==
  LET av == IF a.t = "object" THEN a.v ELSE <<>>
      bv == IF b.t = "object" THEN b.v ELSE <<>>
  IN JObj([k \in DOMAIN av \cup DOMAIN bv |-> IF k \in DOMAIN bv THEN bv[k] ELSE av[k]])

\* The profile after the assignments of the handler.
mergedProfile(profile, parsedData) ==
  ObjectOf([k \in OrFields \cup {"personalInfo", "resume"} |->
              IF k = "personalInfo"
              THEN Spread(Get(profile, k), Get(parsedData, k))
              ELSE IF k = "resume" THEN JObj([parsedData |-> parsedData])
              ELSE OrElse(Get(parsedData, k), Get(profile, k))])

\* The catch block: the uploaded file is removed, the answer is 500.
uploadFailed(q) ==
  /\ files' = files \ {q}
  /\ Reply(q, 500)

\* multer has stored the file; the handler runs to the await of
\* extractTextFromFile.
UploadStart(q) ==
  /\ hPc[q] = "off"
  /\ \E u \in Users, file \in Uploads :
       /\ hReq' = [hReq EXCEPT ![q] = [kind |-> "upload", user |-> u, file |-> file,
                                       profile |-> Undef]]
       /\ IF ~file.present
          THEN Reply(q, 400) /\ UNCHANGED files
          ELSE /\ files' = files \cup {q}
               /\ hPc' = [hPc EXCEPT ![q] = "extracting"]
               /\ UNCHANGED hRes
  /\ UNCHANGED <<jobs, profiles>>

\* The handler calls the interpreter although the extraction failed.
Mutant_UploadExtract(q) ==
  /\ hPc[q] = "extracting"
  /\ Call(q, "parse", JStr(IF hReq[q].file.readable THEN hReq[q].file.text ELSE <<>>))
  /\ hPc' = [hPc EXCEPT ![q] = "parsing"]
  /\ UNCHANGED <<hRes, files>>
  /\ UNCHANGED <<jobs, profiles, hReq>>
\* extractTextFromFile settles: it throws, or its text goes to
\* parseResumeWithGemini.
UploadExtract(q) ==
  /\ hPc[q] = "extracting"
  /\ IF ~hReq[q].file.readable
     THEN uploadFailed(q) /\ UNCHANGED coreVars
     ELSE /\ Call(q, "parse", JStr(hReq[q].file.text))
          /\ hPc' = [hPc EXCEPT ![q] = "parsing"]
          /\ UNCHANGED <<hRes, files>>
  /\ UNCHANGED <<jobs, profiles, hReq>>

\* parseResumeWithGemini has settled: Profile.findOne, or new Profile.
UploadFind(q) ==
  /\ hPc[q] = "parsing"
  /\ pc[q] = "done"
  /\ IF outcome[q].kind = "throw"
     THEN uploadFailed(q) /\ UNCHANGED hReq
     ELSE /\ hReq' = [hReq EXCEPT ![q].profile =
                        IF hReq[q].user \in DOMAIN profiles
                        THEN profiles[hReq[q].user] ELSE NewProfile]
          /\ hPc' = [hPc EXCEPT ![q] = "found"]
          /\ UNCHANGED <<hRes, files>>
  /\ UNCHANGED <<jobs, profiles>>
  /\ UNCHANGED coreVars

\* The assignments, profile.save() and the answer.
UploadSave(q) ==
  /\ hPc[q] = "found"
  /\ LET u == hReq[q].user
         saved == mergedProfile(hReq[q].profile, outcome[q].value)
     IN profiles' = [v \in DOMAIN profiles \cup {u} |-> IF v = u THEN saved ELSE profiles[v]]
  /\ Reply(q, 200)
  /\ UNCHANGED <<jobs, files, hReq>>
  /\ UNCHANGED coreVars

InitUpload ==
  /\ genAI \in BOOLEAN
  /\ CoreIdle
  /\ ScorerOff
  /\ ParserOff
  /\ ApplyOff
  /\ jobs = <<>>
  /\ profiles = [u \in {"u1"} |-> StoredProfile]
  /\ files = {}
  /\ hPc = [q \in Invocations |-> "off"]
  /\ hReq = [q \in Invocations |-> Undef]
  /\ hRes = [q \in Invocations |-> Undef]
  /\ FormOff

NextUpload ==
  \E q \in Invocations :
    \/ UploadStart(q) /\ UNCHANGED <<coreVars, scorerVars, parserVars, applyVars, formVars>>
    \/ UploadExtract(q) /\ UNCHANGED <<scorerVars, parserVars, applyVars, formVars>>
    \/ UploadResponds(q) /\ UNCHANGED <<scorerVars, parserVars, applyVars, siteVars, formVars>>
    \/ ServiceFails(q) /\ UNCHANGED <<scorerVars, parserVars, applyVars, siteVars, formVars>>
    \/ UploadFind(q) /\ UNCHANGED <<scorerVars, parserVars, applyVars, formVars>>
    \/ UploadSave(q) /\ UNCHANGED <<scorerVars, parserVars, applyVars, formVars>>

SpecUpload == InitUpload /\ [][NextUpload]_vars

\* C22: parseResumeWithGemini is invoked only by the step that follows a
\* successful text extraction; when the extraction fails, that step calls
\* no interpreter, leaves the stored profiles unchanged, removes the
\* uploaded file and answers 500, and the request takes no further step.
C22_NoParseWithoutText ==
  [][\A q \in Invocations :
       /\ pc[q] = "idle" /\ pc'[q] # "idle" =>
            /\ hPc[q] = "extracting"
            /\ hReq[q].file.readable
            /\ arg'[q] = JStr(hReq[q].file.text)
       /\ hPc[q] = "extracting" /\ ~hReq[q].file.readable /\ hPc'[q] # hPc[q] =>
            /\ pc'[q] = "idle" /\ calls'[q] = 0
            /\ profiles' = profiles
            /\ q \notin files'
            /\ hPc'[q] = "done" /\ hRes'[q] = 500
       /\ hPc[q] = "done" => hPc'[q] = "done" /\ pc'[q] = pc[q] /\ hRes'[q] = hRes[q]]_vars

\* An upload whose extraction failed has ended while u1's profile is stored.
C22_Witness ==
  \E q \in Invocations :
    /\ hPc[q] = "done"
    /\ hReq[q].kind = "upload"
    /\ hReq[q].file.present /\ ~hReq[q].file.readable
    /\ hReq[q].user = "u1"
    /\ hRes[q] = 500
    /\ q \notin files
    /\ pc[q] = "idle"
    /\ profiles["u1"] = StoredProfile

\* Nothing was extracted for a field: it is absent, null, '' or [].
NothingExtracted(x) == x \in {Undef, JNull, JStr(<<>>), JArr(<<>>)}

\* C28: the save step of a successful upload keeps the found profile's
\* value of every field among summary, experience, education, skills,
\* projects, certifications and languages for which the parsed data carry
\* no non-empty value, and every personalInfo key absent from the parsed
\* data.
C28_UploadKeepsUnparsedFields ==
  [][\A q \in Invocations :
       hPc[q] = "found" /\ hPc'[q] = "done" /\ hRes'[q] = 200 =>
         LET old == hReq[q].profile
             new == profiles'[hReq[q].user]
             parsedData == outcome[q].value
         IN /\ \A k \in OrFields :
                 NothingExtracted(Get(parsedData, k)) => Get(new, k) = Get(old, k)
            /\ \A k \in DOMAIN Get(old, "personalInfo").v :
                 Get(Get(parsedData, "personalInfo"), k) = Undef =>
                   Get(Get(new, "personalInfo"), k) = Get(Get(old, "personalInfo"), k)]_vars

(***************************************************************************)
(* GET /jobs/matches and GET /jobs/:id.  A behaviour holds one /matches    *)
(* request, whose i-th active job is scored by invocation i, or /:id       *)
(* requests, request q scoring with invocation q.                          *)
(***************************************************************************)
\* The order in which Job.find returns the collection.
JobOrder == <<"j1", "j2", "j3">>
activeJobs == SelectSeq(JobOrder, LAMBDA j : j \in DOMAIN jobs /\ jobs[j].status = "active")

\* req.user of GET /jobs/:id, a route without authenticateToken: nobody, a
\* jobseeker with or without a profile, an employer.
Viewers ==
  {[role |-> "none"], [role |-> "jobseeker", id |-> "u1"],
   [role |-> "jobseeker", id |-> "u2"], [role |-> "employer", id |-> "e1"]}

R_Zero == <<"{","\"","o","v","e","r","a","l","l","S","c","o","r","e","\"",":","0","}">>
\* What the service answers to the scoring prompt here.
BrowseResponses == {R_Zero, R_Fenced, R_OutOfRange, R_Prose}
BrowseResponds(i) == \E text \in BrowseResponses : Respond(i, text)

\* The response body is sent and the handler ends.
Send(q, body) ==
  /\ hRes' = [hRes EXCEPT ![q] = body]
  /\ hPc' = [hPc EXCEPT ![q] = "done"]

\* ToNumber, for the values an atsScore takes here; nan marks NaN.
ToNumber(x) ==
  CASE x.t = "number" -> [nan |-> FALSE, v |-> x.v]
    [] x.t = "null" -> [nan |-> FALSE, v |-> 0]
    [] x.t = "boolean" -> [nan |-> FALSE, v |-> IF x.v THEN 1 ELSE 0]
    [] OTHER -> [nan |-> TRUE, v |-> 0]

\* (a, b) => b.atsScore - a.atsScore, a NaN result read as +0 by sort
compareScores(a, b) ==
  LET x == ToNumber(b.atsScore)
      y == ToNumber(a.atsScore)
  IN IF x.nan \/ y.nan THEN 0 ELSE x.v - y.v

\* The comparator is a consistent comparison function for the elements.
consistentComparator(list) ==
  \A i, j, k \in DOMAIN list :
    /\ compareScores(list[i], list[j]) = 0 /\ compareScores(list[j], list[k]) = 0
         => compareScores(list[i], list[k]) = 0
    /\ compareScores(list[i], list[j]) < 0 /\ compareScores(list[j], list[k]) < 0
         => compareScores(list[i], list[k]) < 0
    /\ compareScores(list[i], list[j]) > 0 /\ compareScores(list[j], list[k]) > 0
         => compareScores(list[i], list[k]) > 0

\* Array.prototype.sort: stable under a consistent comparator, in an
\* implementation-defined order otherwise.
sortResults(list) ==
  LET n == Len(list)
      perms == {p \in [1..n -> 1..n] : \A i, j \in 1..n : i # j => p[i] # p[j]}
      stable(p) == \A i, j \in 1..n :
                     i < j => LET c == compareScores(list[p[i]], list[p[j]])
                              IN c < 0 \/ (c = 0 /\ p[i] < p[j])
  IN {[i \in 1..n |-> list[p[i]]] :
        p \in {p \in perms : consistentComparator(list) => stable(p)}}

\* One element of jobsWithScores: the job with the scorer's result, or with
\* atsScore 0 after a throw.
jobWithScore(j, r) ==
  IF r.kind = "return"
  THEN [job |-> j, atsScore |-> Get(r.value, "overallScore"), matchDetails |-> r.value]
  ELSE [job |-> j, atsScore |-> JNum(0), matchDetails |-> JNull]

\* router.get('/matches') to the calls of jobs.map: Profile.findOne and
\* Job.find({ status: 'active' }).
MatchesStart ==
  /\ \A q \in Invocations : hPc[q] = "off"
  /\ Len(activeJobs) <= MaxInv
  /\ \E u \in Users :
       /\ hReq' = [hReq EXCEPT ![1] = [kind |-> "matches", user |-> u,
                                       found |-> activeJobs]]
       /\ IF u \notin DOMAIN ProfileDocs
          THEN Send(1, [status |-> 404])
          ELSE /\ hPc' = [hPc EXCEPT ![1] = "mapping"]
               /\ UNCHANGED hRes
  /\ UNCHANGED <<jobs, profiles, files>>

\* The i-th callback of jobs.map runs to its await of calculateATSScore.
MatchesScore(i) ==
  /\ hPc[1] = "mapping"
  /\ i \in DOMAIN hReq[1].found
  /\ Call(i, "score", [job |-> jobArgument(jobs[hReq[1].found[i]].doc),
                        profile |-> profileArgument(ProfileDocs[hReq[1].user].doc)])

\* Promise.all has resolved: the sort and the answer.
MatchesFinish ==
  /\ hPc[1] = "mapping"
  /\ \A i \in DOMAIN hReq[1].found : pc[i] = "done"
  /\ LET jobsWithScores ==
           [i \in DOMAIN hReq[1].found |-> jobWithScore(hReq[1].found[i], outcome[i])]
     IN \E sorted \in sortResults(jobsWithScores) :
          Send(1, [status |-> 200, jobs |-> sorted])
  /\ UNCHANGED <<jobs, profiles, files, hReq>>

\* router.get('/:id') to the await of calculateATSScore, or to the answer
\* when nothing is scored.
GetJobStart(q) ==
  /\ hPc[q] = "off"
  /\ \A r \in Invocations : hPc[r] # "off" => hReq[r].kind = "job"
  /\ \E viewer \in Viewers, j \in JobIds :
       /\ hReq' = [hReq EXCEPT ![q] = [kind |-> "job", viewer |-> viewer, jobId |-> j]]
       /\ IF j \notin DOMAIN jobs
          THEN Send(q, [status |-> 404]) /\ UNCHANGED coreVars
          ELSE IF viewer.role = "jobseeker" /\ viewer.id \in DOMAIN ProfileDocs
          THEN /\ Call(q, "score", [job |-> jobArgument(jobs[j].doc),
                                    profile |-> profileArgument(ProfileDocs[viewer.id].doc)])
               /\ hPc' = [hPc EXCEPT ![q] = "scoring"]
               /\ UNCHANGED hRes
          ELSE /\ Send(q, [status |-> 200, job |-> j, atsScore |-> JNull,
                           matchDetails |-> JNull])
               /\ UNCHANGED coreVars
  /\ UNCHANGED <<jobs, profiles, files>>

\* calculateATSScore has settled: atsData?.overallScore || null
GetJobFinish(q) ==
  /\ hPc[q] = "scoring"
  /\ pc[q] = "done"
  /\ LET atsData == IF outcome[q].kind = "return" THEN outcome[q].value ELSE JNull
     IN Send(q, [status |-> 200, job |-> hReq[q].jobId,
                 atsScore |-> OrElse(Get(atsData, "overallScore"), JNull),
                 matchDetails |-> atsData])
  /\ UNCHANGED <<jobs, profiles, files, hReq>>

InitBrowse ==
  /\ genAI \in BOOLEAN
  /\ CoreIdle
  /\ ScorerOff
  /\ ParserOff
  /\ ApplyOff
  /\ jobs = JobDocs
  /\ profiles = <<>>
  /\ files = {}
  /\ hPc = [q \in Invocations |-> "off"]
  /\ hReq = [q \in Invocations |-> Undef]
  /\ hRes = [q \in Invocations |-> Undef]
  /\ FormOff

NextBrowse ==
  \/ MatchesStart /\ UNCHANGED <<coreVars, scorerVars, parserVars, applyVars, formVars>>
  \/ MatchesFinish /\ UNCHANGED <<coreVars, scorerVars, parserVars, applyVars, formVars>>
  \/ \E q \in Invocations :
       \/ MatchesScore(q) /\ UNCHANGED <<scorerVars, parserVars, applyVars, siteVars, formVars>>
       \/ BrowseResponds(q) /\ UNCHANGED <<scorerVars, parserVars, applyVars, siteVars, formVars>>
       \/ ServiceFails(q) /\ UNCHANGED <<scorerVars, parserVars, applyVars, siteVars, formVars>>
       \/ GetJobStart(q) /\ UNCHANGED <<scorerVars, parserVars, applyVars, formVars>>
       \/ GetJobFinish(q) /\ UNCHANGED <<coreVars, scorerVars, parserVars, applyVars, formVars>>

SpecBrowse == InitBrowse /\ [][NextBrowse]_vars

\* The overallScore of the result that invocation i returned is a number in
\* 0..100.
ReturnedInRange(i) ==
  /\ outcome[i].kind = "return"
  /\ Get(outcome[i].value, "overallScore").t = "number"
  /\ Get(outcome[i].value, "overallScore").v \in 0..100

\* C21: for a jobseeker with a profile, whenever calculateATSScore returned
\* a result with an overallScore in 0..100 for a job, the atsScore attached
\* to that job in the answer of GET /jobs/matches and of GET /jobs/:id is
\* that overallScore and matchDetails is that result.
C21_AtsScoreIsOverallScore ==
  \A q \in Invocations :
    hPc[q] = "done" /\ hRes[q].status = 200 =>
      /\ hReq[q].kind = "matches" =>
           \A i \in DOMAIN hReq[q].found :
             ReturnedInRange(i) =>
               \E e \in DOMAIN hRes[q].jobs :
                 /\ hRes[q].jobs[e].job = hReq[q].found[i]
                 /\ hRes[q].jobs[e].atsScore = Get(outcome[i].value, "overallScore")
                 /\ hRes[q].jobs[e].matchDetails = outcome[i].value
      /\ hReq[q].kind = "job" /\ pc[q] = "done" /\ ReturnedInRange(q) =>
           /\ hRes[q].atsScore = Get(outcome[q].value, "overallScore")
           /\ hRes[q].matchDetails = outcome[q].value

\* C25: the answer of GET /jobs/matches holds every active job exactly
\* once, each with a numeric atsScore, in an order of non-increasing
\* atsScore; a job whose scoring threw has atsScore 0 and matchDetails null.
C25_MatchesSortedAndComplete ==
  hPc[1] = "done" /\ hReq[1].kind = "matches" /\ hRes[1].status = 200 =>
    LET listed == hRes[1].jobs
    IN /\ Len(listed) = Len(activeJobs)
       /\ \A i \in DOMAIN activeJobs : \E e \in DOMAIN listed : listed[e].job = activeJobs[i]
       /\ \A i \in DOMAIN hReq[1].found :
            outcome[i].kind = "throw" =>
              \E e \in DOMAIN listed :
                /\ listed[e].job = hReq[1].found[i]
                /\ listed[e].atsScore = JNum(0)
                /\ listed[e].matchDetails = JNull
       /\ \A e \in DOMAIN listed : listed[e].atsScore.t = "number"
       /\ \A e, f \in DOMAIN listed : e < f => listed[e].atsScore.v >= listed[f].atsScore.v

(***************************************************************************)
(* The fallback scorer applied again after a skill is added to the         *)
(* profile.                                                                *)
(***************************************************************************)
MaxProfileSkills == 3   \* longest profile.skills after additions

\* The skill entries added: their names are not empty.
AddedSkills ==
  {SkillNamed(<<"s","q","l">>), SkillNamed(<<"S","c","r","i","p","t">>),
   SkillNamed(<<"G","o">>)}

InitMonotone ==
  /\ genAI = FALSE
  /\ CoreIdle
  /\ sJob \in {ObjectOf([skills |-> sk, experience |-> ex]) :
                 sk \in {JArr(PickFrom(JobSkillPool, S, 1)) : S \in SUBSET {1, 2, 3}},
                 ex \in {Undef, JObj([min |-> JNum(2)])}}
  /\ sProfile \in {ObjectOf([skills |-> sk, experience |-> Entries(1), education |-> ed]) :
                     sk \in {JArr(PickFrom(ProfileSkillPool, S, 1)) : S \in SUBSET {1, 2}},
                     ed \in {Entries(0), Entries(1)}}
  /\ sPc = "ready"
  /\ sResult = NoCompletion
  /\ ParserOff
  /\ ApplyOff
  /\ SiteOff
  /\ FormOff

\* A skill entry is appended to profile.skills and the profile scored again.
AddSkillAndScore ==
  /\ sPc = "done"
  /\ Len(sProfile.v.skills.v) < MaxProfileSkills
  /\ \E entry \in AddedSkills :
       /\ sProfile' = JObj([sProfile.v EXCEPT !.skills = JArr(Append(sProfile.v.skills.v, entry))])
       /\ sResult' = fallbackATSScoring(sJob, sProfile')
  /\ UNCHANGED <<sJob, sPc>>
  /\ UNCHANGED <<coreVars, parserVars, applyVars, siteVars, formVars>>

NextMonotone == ScoreFallback \/ AddSkillAndScore

SpecMonotone == InitMonotone /\ [][NextMonotone]_vars

\* C30: for a fixed job and an otherwise fixed profile, adding a skill entry
\* with a non-empty name to profile.skills never lowers skillsMatch.score or
\* overallScore of the fallback scorer, and the scorer still returns.
C30_MoreSkillsNeverLower ==
  [][sPc = "done" /\ sPc' = "done" /\ sResult.kind = "return" =>
       /\ sResult'.kind = "return"
       /\ sResult'.value.v.skillsMatch.v.score.v >= ReportedSkills
       /\ sResult'.value.v.overallScore.v >= ReportedOverall]_vars

\* A profile to which "sql" and then "Script" were added, against a job that
\* asks for Java, JavaScript and SQL: all three matched.
C30_Witness ==
  /\ Scored
  /\ Len(sJob.v.skills.v) = 3
  /\ sProfile.v.skills.v =
       <<ProfileSkillPool[1], SkillNamed(<<"s","q","l">>), SkillNamed(<<"S","c","r","i","p","t">>)>>
  /\ ReportedSkills = 100

(***************************************************************************)
(* The skills of the Post Job form.                                        *)
(***************************************************************************)
MaxFormSkills == 3   \* longest formData.skills of the model

\* What the employer types in the skill name field.
SkillInputs ==
  {<<>>, <<" ">>, <<"J","a","v","a">>, <<"j","a","v","a">>, <<"J","a","v","a"," ">>,
   <<"S","Q","L">>}

\* useState({ name: '', required: false, weight: 1 })
BlankSkill == [name |-> <<>>, required |-> FALSE, weight |-> 1]

InitForm ==
  /\ genAI = FALSE
  /\ CoreIdle
  /\ ScorerOff
  /\ ParserOff
  /\ ApplyOff
  /\ SiteOff
  /\ formSkills = <<>>
  /\ newSkill = BlankSkill

\* onChange of the name field: setNewSkill({ ...newSkill, name: e.target.value })
setNewSkillName ==
  /\ \E name \in SkillInputs : newSkill' = [newSkill EXCEPT !.name = name]
  /\ UNCHANGED formSkills

addSkill ==
  /\ Len(formSkills) < MaxFormSkills
  /\ IF trim(newSkill.name) = <<>>
     THEN UNCHANGED <<formSkills, newSkill>>
     ELSE IF \E i \in DOMAIN formSkills :
               toLowerCase(formSkills[i].name) = toLowerCase(newSkill.name)
     THEN UNCHANGED <<formSkills, newSkill>>
     ELSE /\ formSkills' = Append(formSkills, [newSkill EXCEPT !.name = trim(newSkill.name)])
          /\ newSkill' = BlankSkill

\* prev.skills.filter((_, i) => i !== index)
removeSkill(index) ==
  /\ formSkills' = [i \in 1..(Len(formSkills) - 1) |->
                      IF i < index THEN formSkills[i] ELSE formSkills[i + 1]]
  /\ UNCHANGED newSkill

NextForm ==
  \/ setNewSkillName /\ UNCHANGED <<coreVars, scorerVars, parserVars, applyVars, siteVars>>
  \/ addSkill /\ UNCHANGED <<coreVars, scorerVars, parserVars, applyVars, siteVars>>
  \/ \E index \in DOMAIN formSkills :
       removeSkill(index) /\ UNCHANGED <<coreVars, scorerVars, parserVars, applyVars, siteVars>>

SpecForm == InitForm /\ [][NextForm]_vars

\* C29: after any sequence of addSkill and removeSkill, formData.skills has
\* no two entries whose names are equal ignoring case and no entry with a
\* blank name.
C29_FormSkillsDistinct ==
  /\ \A i, j \in DOMAIN formSkills :
       i # j => toLowerCase(formSkills[i].name) # toLowerCase(formSkills[j].name)
  /\ \A i \in DOMAIN formSkills : trim(formSkills[i].name) # <<>>

====
